---- MODULE Spec2Model ----
(***************************************************************************)
(* Semantic network analyzer: text normalizer (TextProcessor),             *)
(* co-occurrence graph builder (NetworkBuilder) and multi-group            *)
(* aggregator (MultiGroupAnalyzer).                                        *)
(*                                                                         *)
(* A Python str is a sequence of one-character strings, so that cleaning,  *)
(* splitting, suffix rules and sorting are computed character by           *)
(* character.  A dict is a function, a set a set, a list a sequence.       *)
(***************************************************************************)
EXTENDS Integers, Sequences, FiniteSets, TLC

VARIABLES
  processor,       \* the TextProcessor shared by the builders
  ctor_args,       \* the stopwords argument the TextProcessor was constructed with
  group_names,     \* MultiGroupAnalyzer.group_names
  builders,        \* MultiGroupAnalyzer.builders / a stand-alone NetworkBuilder
  analysis_data,   \* MultiGroupAnalyzer.analysis_data
  combined_edges,  \* MultiGroupAnalyzer.combined_edges
  ret,             \* the last call: its name, arguments and outcome
  heap,            \* the set and dict objects that processors refer to, by address
  alone,           \* for each analyzer, the same calls made with no other analyzer
  cache,           \* cache_service._cache: key |-> stored response
  analyses_today,  \* the user's row of user_profiles: analyses_today
  requests,        \* the requests to /analyze/multi: position and locals of each
  served           \* the number of analysis results returned to the user today

vars == <<processor, ctor_args, group_names, builders, analysis_data, combined_edges, ret,
          heap, alone, cache, analyses_today, requests, served>>

--------------------------------------------------------------------------
(* Characters and strings                                                  *)

LowerChars ==
  <<"a","b","c","d","e","f","g","h","i","j","k","l","m",
    "n","o","p","q","r","s","t","u","v","w","x","y","z">>

UpperChars ==
  <<"A","B","C","D","E","F","G","H","I","J","K","L","M",
    "N","O","P","Q","R","S","T","U","V","W","X","Y","Z">>

DigitChars == <<"0","1","2","3","4","5","6","7","8","9">>

\* The characters of the model in code-point order (what sorted() compares).
CharOrder ==
  <<" ", "!", ",", ".">> \o DigitChars \o UpperChars \o <<"_">> \o LowerChars

Range(s) == {s[i] : i \in DOMAIN s}

Ord(c) == CHOOSE i \in DOMAIN CharOrder : CharOrder[i] = c

\* Python's str < str: lexicographic on code points, a proper prefix first.
RECURSIVE StrLess(_, _)
StrLess(a, b) ==
  IF b = <<>> THEN FALSE
  ELSE IF a = <<>> THEN TRUE
  ELSE IF Head(a) = Head(b) THEN StrLess(Tail(a), Tail(b))
  ELSE Ord(Head(a)) < Ord(Head(b))

\* str.lower() on one character.
Lower(c) ==
  IF c \in Range(UpperChars)
    THEN LowerChars[CHOOSE i \in DOMAIN UpperChars : UpperChars[i] = c]
    ELSE c

\* \w of the regular expression: letters, digits and underscore.
IsWordChar(c) == c \in Range(LowerChars) \cup Range(UpperChars) \cup Range(DigitChars) \cup {"_"}

\* \s of the regular expression, and the separator of str.split().
IsSpace(c) == c = " "

EndsWith(word, suffix) ==
  /\ Len(word) >= Len(suffix)
  /\ SubSeq(word, Len(word) - Len(suffix) + 1, Len(word)) = suffix

\* word[:-n]
DropLast(word, n) == SubSeq(word, 1, Len(word) - n)

\* str.strip()
RECURSIVE LStrip(_)
LStrip(s) == IF s # <<>> /\ IsSpace(Head(s)) THEN LStrip(Tail(s)) ELSE s

RECURSIVE RStrip(_)
RStrip(s) == IF s # <<>> /\ IsSpace(s[Len(s)]) THEN RStrip(DropLast(s, 1)) ELSE s

Strip(s) == RStrip(LStrip(s))

\* str.split(): the maximal runs of non-space characters, in order.
RECURSIVE SplitFrom(_, _, _)
SplitFrom(text, cur, acc) ==
  IF text = <<>> THEN (IF cur = <<>> THEN acc ELSE Append(acc, cur))
  ELSE IF IsSpace(Head(text))
    THEN SplitFrom(Tail(text), <<>>, IF cur = <<>> THEN acc ELSE Append(acc, cur))
    ELSE SplitFrom(Tail(text), Append(cur, Head(text)), acc)

Split(text) == SplitFrom(text, <<>>, <<>>)

\* " ".join(words)
RECURSIVE Join(_)
Join(words) ==
  IF words = <<>> THEN <<>>
  ELSE IF Len(words) = 1 THEN words[1]
  ELSE words[1] \o <<" ">> \o Join(Tail(words))

\* Python's None where a str or a graph is expected.
None == <<"None">>

\* A value that is not a str (a missing spreadsheet cell).
NotAString == <<"NaN">>

--------------------------------------------------------------------------
(* TextProcessor                                                           *)

DEFAULT_STOPWORDS ==
  {
    <<"a">>, <<"a","b","o","u","t">>, <<"a","b","o","v","e">>, <<"a","f","t","e","r">>,
    <<"a","g","a","i","n">>, <<"a","g","a","i","n","s","t">>, <<"a","l","l">>,
    <<"a","l","s","o">>, <<"a","m">>, <<"a","n">>, <<"a","n","d">>, <<"a","n","y">>,
    <<"a","r","e">>, <<"a","s">>, <<"a","t">>, <<"b","e">>, <<"b","e","c","a","u","s","e">>,
    <<"b","e","e","n">>, <<"b","e","f","o","r","e">>, <<"b","e","i","n","g">>,
    <<"b","e","l","o","w">>, <<"b","e","t","w","e","e","n">>, <<"b","o","t","h">>,
    <<"b","u","t">>, <<"b","y">>, <<"c","a","n">>, <<"c","a","n","n","o","t">>,
    <<"c","o","u","l","d">>, <<"d","i","d">>, <<"d","o">>, <<"d","o","e","s">>,
    <<"d","o","i","n","g">>, <<"d","o","w","n">>, <<"d","u","r","i","n","g">>,
    <<"e","a","c","h">>, <<"e","t","c">>, <<"f","e","w">>, <<"f","o","r">>,
    <<"f","r","o","m">>, <<"f","u","r","t","h","e","r">>, <<"h","a","d">>, <<"h","a","s">>,
    <<"h","a","v","e">>, <<"h","a","v","i","n","g">>, <<"h","e">>, <<"h","e","r">>,
    <<"h","e","r","e">>, <<"h","e","r","s">>, <<"h","e","r","s","e","l","f">>, <<"h","i","m">>,
    <<"h","i","m","s","e","l","f">>, <<"h","i","s">>, <<"h","o","w">>, <<"i">>, <<"i","f">>,
    <<"i","n">>, <<"i","n","t","o">>, <<"i","s">>, <<"i","t">>, <<"i","t","s">>,
    <<"i","t","s","e","l","f">>, <<"j","u","s","t">>, <<"m","e">>, <<"m","i","g","h","t">>,
    <<"m","o","r","e">>, <<"m","o","s","t">>, <<"m","u","s","t">>, <<"m","y">>,
    <<"m","y","s","e","l","f">>, <<"n","o">>, <<"n","o","r">>, <<"n","o","t">>,
    <<"n","o","w">>, <<"o","f">>, <<"o","f","f">>, <<"o","n">>, <<"o","n","c","e">>,
    <<"o","n","l","y">>, <<"o","r">>, <<"o","t","h","e","r">>, <<"o","u","r">>,
    <<"o","u","r","s">>, <<"o","u","r","s","e","l","v","e","s">>, <<"o","u","t">>,
    <<"o","v","e","r">>, <<"o","w","n">>, <<"s","a","m","e">>, <<"s","h","e">>,
    <<"s","h","o","u","l","d">>, <<"s","o">>, <<"s","o","m","e">>, <<"s","u","c","h">>,
    <<"t","h","a","n">>, <<"t","h","a","t">>, <<"t","h","e">>, <<"t","h","e","i","r">>,
    <<"t","h","e","i","r","s">>, <<"t","h","e","m">>,
    <<"t","h","e","m","s","e","l","v","e","s">>, <<"t","h","e","n">>, <<"t","h","e","r","e">>,
    <<"t","h","e","s","e">>, <<"t","h","e","y">>, <<"t","h","i","s">>, <<"t","h","o","s","e">>,
    <<"t","h","r","o","u","g","h">>, <<"t","o">>, <<"t","o","o">>, <<"u","n","d","e","r">>,
    <<"u","n","t","i","l">>, <<"u","p">>, <<"v","e","r","y">>, <<"w","a","s">>, <<"w","e">>,
    <<"w","e","r","e">>, <<"w","h","a","t">>, <<"w","h","e","n">>, <<"w","h","e","r","e">>,
    <<"w","h","i","c","h">>, <<"w","h","i","l","e">>, <<"w","h","o">>, <<"w","h","o","m">>,
    <<"w","h","y">>, <<"w","i","l","l">>, <<"w","i","t","h">>, <<"w","o","u","l","d">>,
    <<"y","o","u">>, <<"y","o","u","r">>, <<"y","o","u","r","s">>,
    <<"y","o","u","r","s","e","l","f">>, <<"y","o","u","r","s","e","l","v","e","s">>
  }

\* An Optional[Set[str]] argument: None, or a set.
NoSet == [some |-> FALSE, val |-> {}]
SomeSet(s) == [some |-> TRUE, val |-> s]

\* Python truth value of an Optional[Set[str]]: None and the empty set are falsy.
Truthy(opt) == opt.some /\ opt.val # {}

\* TextProcessor.__init__
TextProcessor(stopwords, delete_words, word_mappings, min_word_length, unify_plurals) ==
  [ stopwords       |-> IF Truthy(stopwords) THEN stopwords.val ELSE DEFAULT_STOPWORDS,
    delete_words    |-> delete_words,
    word_mappings   |-> word_mappings,
    min_word_length |-> min_word_length,
    unify_plurals   |-> unify_plurals ]

clean_word(word) ==
  LET lowered == [i \in DOMAIN word |-> Lower(word[i])]
  IN  SelectSeq(Strip(lowered), LAMBDA c : IsWordChar(c) \/ IsSpace(c))

get_singular(p, word) ==
  IF ~p.unify_plurals THEN word
  ELSE IF EndsWith(word, <<"i","e","s">>) /\ Len(word) > 4
    THEN DropLast(word, 3) \o <<"y">>
  ELSE IF EndsWith(word, <<"e","s">>) /\ Len(word) > 3
    THEN LET base == DropLast(word, 2)
         IN  IF \/ EndsWith(base, <<"s">>) \/ EndsWith(base, <<"x">>)
                \/ EndsWith(base, <<"z">>) \/ EndsWith(base, <<"c","h">>)
                \/ EndsWith(base, <<"s","h">>)
               THEN base
               ELSE DropLast(word, 1)
  ELSE IF EndsWith(word, <<"s">>) /\ Len(word) > 2 /\ ~EndsWith(word, <<"s","s">>)
    THEN DropLast(word, 1)
  ELSE word

\* A mapping that is looked up under the singular of the word as well.
apply_mapping_to_singular(p, word) ==
  IF word \in DOMAIN p.word_mappings THEN p.word_mappings[word]
  ELSE IF get_singular(p, word) \in DOMAIN p.word_mappings
    THEN p.word_mappings[get_singular(p, word)]
  ELSE word

\* The word after the explicit mapping (process_word, "Apply mappings").
apply_mapping(p, word) ==
  IF word \in DOMAIN p.word_mappings THEN p.word_mappings[word] ELSE word

\* A word left as it is, plural or not.
keep_plural(p, word) == word

\* The word after plural unification (process_word, "Unify plurals").
unify_plural(p, word) ==
  IF p.unify_plurals
    THEN LET singular == get_singular(p, word)
         IN  IF singular # word /\ Len(singular) >= p.min_word_length
               THEN singular ELSE word
    ELSE word

process_word(p, raw) ==
  LET word == clean_word(raw) IN
  IF Len(word) < p.min_word_length THEN None
  ELSE IF word \in p.stopwords \/ word \in p.delete_words THEN None
  ELSE LET final == unify_plural(p, apply_mapping(p, word))
       IN  IF final \in p.delete_words THEN None ELSE final

RECURSIVE process_tokens(_, _)
process_tokens(p, tokens) ==
  IF tokens = <<>> THEN <<>>
  ELSE LET processed == process_word(p, Head(tokens))
           rest == process_tokens(p, Tail(tokens))
       IN  IF processed # None /\ processed # <<>> THEN <<processed>> \o rest ELSE rest

process_text(p, text) ==
  IF text = <<>> \/ text = NotAString THEN <<>>
  ELSE process_tokens(p, Split(text))

\* dict(Counter(all_words))
Occurrences(words, w) == Cardinality({i \in DOMAIN words : words[i] = w})

Counter(words) == [w \in Range(words) |-> Occurrences(words, w)]

RECURSIVE Flatten(_)
Flatten(lists) == IF lists = <<>> THEN <<>> ELSE Head(lists) \o Flatten(Tail(lists))

process_texts(p, texts) ==
  LET processed_texts == [i \in DOMAIN texts |-> process_text(p, texts[i])]
      all_words == Flatten(processed_texts)
      word_counts == Counter(all_words)
  IN  [ word_counts     |-> word_counts,
        processed_texts |-> processed_texts,
        total_words     |-> Len(all_words),
        unique_words    |-> Cardinality(DOMAIN word_counts) ]

\* add_mapping: both sides lowercased.
add_mapping(p, source, target) ==
  LET s == [i \in DOMAIN source |-> Lower(source[i])]
      t == [i \in DOMAIN target |-> Lower(target[i])]
  IN  [p EXCEPT !.word_mappings =
         [w \in DOMAIN p.word_mappings \cup {s} |->
            IF w = s THEN t ELSE p.word_mappings[w]]]

add_delete_word(p, word) ==
  [p EXCEPT !.delete_words = @ \cup {[i \in DOMAIN word |-> Lower(word[i])]}]

--------------------------------------------------------------------------
(* NetworkBuilder                                                          *)

EmptyDict == <<>>

Max(a, b) == IF a >= b THEN a ELSE b

RECURSIVE SumOver(_, _)
\* sum(f[x] for x in S)
SumOver(f, S) ==
  IF S = {} THEN 0
  ELSE LET x == CHOOSE y \in S : TRUE IN f[x] + SumOver(f, S \ {x})

\* max(d.values()) of a non-empty dict of integers.
MaxValue(d) == CHOOSE m \in Range(d) : \A x \in Range(d) : x <= m

\* The words of a list in order of first occurrence (insertion order of a dict).
RECURSIVE FirstOccurrences(_, _)
FirstOccurrences(words, seen) ==
  IF words = <<>> THEN <<>>
  ELSE IF Head(words) \in seen THEN FirstOccurrences(Tail(words), seen)
  ELSE <<Head(words)>> \o FirstOccurrences(Tail(words), seen \cup {Head(words)})

\* self.graph = None
NoGraph == [built |-> FALSE, order |-> <<>>, nodes |-> EmptyDict, adj |-> EmptyDict]

\* nx.Graph(): nodes with their attributes (in insertion order), and the
\* undirected edges {u, v} with their attributes.
NewGraph == [built |-> TRUE, order |-> <<>>, nodes |-> EmptyDict, adj |-> EmptyDict]

\* Truth value of self.graph: None is falsy, and so is a graph without nodes
\* (nx.Graph defines __len__ as its number of nodes).
GraphTruthy(g) == g.built /\ DOMAIN g.nodes # {}

\* The attribute of self: last_partition does not exist until it is assigned.
NoPartition == [set |-> FALSE, val |-> EmptyDict]

\* NetworkBuilder.__init__
NetworkBuilder ==
  [graph |-> NoGraph, word_counts |-> EmptyDict, edges |-> EmptyDict,
   last_partition |-> NoPartition]

\* Graph.add_node(word, count=count) for every item of word_counts, in order.
add_nodes(g, order, word_counts) ==
  [g EXCEPT
     !.order = @ \o SelectSeq(order, LAMBDA w : w \notin DOMAIN g.nodes),
     !.nodes = [w \in DOMAIN g.nodes \cup DOMAIN word_counts |->
                  IF w \in DOMAIN word_counts
                    THEN [count |-> word_counts[w]] ELSE g.nodes[w]]]

\* The key under which self.edges holds the edge e = {u, v} of the graph.
PairOf(edges, e) == CHOOSE pr \in DOMAIN edges : {pr[1], pr[2]} = e

\* Graph.add_edge(word1, word2, weight=weight) for every item of edges whose
\* ends are both in word_counts.
add_edges(g, edges, word_counts) ==
  LET kept == {pr \in DOMAIN edges :
                 pr[1] \in DOMAIN word_counts /\ pr[2] \in DOMAIN word_counts}
      new  == {{pr[1], pr[2]} : pr \in kept}
  IN  [g EXCEPT !.adj =
         [e \in DOMAIN g.adj \cup new |->
            IF e \in new
              THEN (IF e \in DOMAIN g.adj
                      THEN [a \in DOMAIN g.adj[e] \cup {"weight"} |->
                             IF a = "weight" THEN edges[PairOf(edges, e)]
                             ELSE g.adj[e][a]]
                      ELSE [weight |-> edges[PairOf(edges, e)]])
              ELSE g.adj[e]]]

\* A filter that keeps every counted word.
unfiltered_counts(word_counts, min_frequency) == word_counts

\* build_network, "Filter by frequency".
filter_counts(word_counts, min_frequency) ==
  [w \in {x \in DOMAIN word_counts : word_counts[x] >= min_frequency} |-> word_counts[w]]

\* combinations(sorted(text_words), 2) for the valid words of one text.
text_pairs(words, valid_words) ==
  LET text_words == Range(words) \cap valid_words
  IN  {pr \in text_words \X text_words : StrLess(pr[1], pr[2])}

\* A count of the pairs of occurrences, in place of the pairs of words, of
\* every text.
count_pair_occurrences(processed_texts, valid_words) ==
  LET all_pairs == UNION {text_pairs(processed_texts[i], valid_words) :
                            i \in DOMAIN processed_texts}
  IN  [pr \in all_pairs |->
         SumOver([i \in DOMAIN processed_texts |->
                    Occurrences(processed_texts[i], pr[1])
                      * Occurrences(processed_texts[i], pr[2])],
                 DOMAIN processed_texts)]

\* build_network, "Build edges": one increment per text and pair.
count_pairs(processed_texts, valid_words) ==
  LET all_pairs == UNION {text_pairs(processed_texts[i], valid_words) :
                            i \in DOMAIN processed_texts}
  IN  [pr \in all_pairs |->
         Cardinality({i \in DOMAIN processed_texts :
                        pr \in text_pairs(processed_texts[i], valid_words)})]

\* build_network, "Filter edges by weight".
filter_edges(edge_weights, min_edge_weight) ==
  [pr \in {x \in DOMAIN edge_weights : edge_weights[x] >= min_edge_weight} |->
     edge_weights[pr]]

\* build_network with the graph argument g standing for the graph the nodes
\* and edges are added to.
build_onto(g, b, p, texts, min_frequency, min_edge_weight) ==
  LET result      == process_texts(p, texts)
      word_counts == filter_counts(result.word_counts, min_frequency)
      order       == SelectSeq(FirstOccurrences(Flatten(result.processed_texts), {}),
                               LAMBDA w : w \in DOMAIN word_counts)
      edges       == filter_edges(count_pairs(result.processed_texts, DOMAIN word_counts),
                                  min_edge_weight)
  IN  [b EXCEPT
         !.word_counts = word_counts,
         !.edges = edges,
         !.graph = add_edges(add_nodes(g, order, word_counts), edges, word_counts)]

\* A build that adds to the graph at hand instead of a new one.
build_network_incremental(b, p, texts, min_frequency, min_edge_weight) ==
  build_onto(IF b.graph.built THEN b.graph ELSE NewGraph,
             b, p, texts, min_frequency, min_edge_weight)

build_network(b, p, texts, min_frequency, min_edge_weight) ==
  build_onto(NewGraph, b, p, texts, min_frequency, min_edge_weight)

\* dict(self.graph.degree())
degree(g, n) == Cardinality({e \in DOMAIN g.adj : n \in e})

\* dict(self.graph.degree(weight='weight'))
strength(g, n) ==
  SumOver([e \in DOMAIN g.adj |-> g.adj[e].weight], {e \in DOMAIN g.adj : n \in e})

\* The outcome of a call: a returned value, or a raised exception.
Return(v) == [ok |-> TRUE, value |-> v, error |-> "-"]
Raise(e)  == [ok |-> FALSE, value |-> <<>>, error |-> e]

\* calculate_centrality_metrics: the degree and the strength of every node
\* (betweenness, closeness and eigenvector are real numbers computed by the
\* graph library, and are not part of the model).
calculate_centrality_metrics(b) ==
  IF ~GraphTruthy(b.graph) THEN Raise("ValueError")
  ELSE Return([n \in DOMAIN b.graph.nodes |->
                 [degree |-> degree(b.graph, n), strength |-> strength(b.graph, n)]])

\* An edgeless graph clustered as one cluster.
zero_clusters(g) == [n \in DOMAIN g.nodes |-> 0]

\* {node: i for i, node in enumerate(self.graph.nodes())}
singleton_clusters(g) ==
  [n \in DOMAIN g.nodes |-> (CHOOSE i \in DOMAIN g.order : g.order[i] = n) - 1]

\* {node: 0 for node in self.graph.nodes()}
single_cluster(g) == [n \in DOMAIN g.nodes |-> 0]

\* What the clustering library does: it raises, or returns one of three
\* labellings of the nodes (all in cluster 0; the first node apart from the
\* others; every node apart).
LibOutcomes == {"raise", "one", "split", "each"}

library(g, outcome) ==
  [ fails  |-> outcome = "raise",
    labels |-> [n \in DOMAIN g.nodes |->
                  IF outcome = "each" THEN singleton_clusters(g)[n]
                  ELSE IF outcome = "split" /\ g.order[1] # n THEN 1
                  ELSE 0] ]

\* A detect_clusters that hands every method to the clustering library.
detect_clusters_any_method(b, method, lib) ==
  IF ~GraphTruthy(b.graph) \/ Cardinality(DOMAIN b.graph.nodes) = 0
    THEN [builder |-> b, value |-> EmptyDict]
  ELSE IF Cardinality(DOMAIN b.graph.adj) = 0
    THEN [builder |-> b, value |-> singleton_clusters(b.graph)]
  ELSE LET partition == IF ~lib.fails THEN lib.labels ELSE single_cluster(b.graph)
       IN  [builder |-> [b EXCEPT !.last_partition = [set |-> TRUE, val |-> partition]],
            value   |-> partition]

\* A detect_clusters without the test for a graph without edges.
detect_clusters_by_method(b, method, lib) ==
  IF ~GraphTruthy(b.graph) \/ Cardinality(DOMAIN b.graph.nodes) = 0
    THEN [builder |-> b, value |-> EmptyDict]
  ELSE LET partition ==
             IF method \in {"louvain", "spectral"} /\ ~lib.fails
               THEN lib.labels ELSE single_cluster(b.graph)
       IN  [builder |-> [b EXCEPT !.last_partition = [set |-> TRUE, val |-> partition]],
            value   |-> partition]

\* detect_clusters.  lib is what the clustering library does when it is
\* called: it raises (lib.fails), or it labels the nodes (lib.labels).
\* The result is the builder after the call and the returned partition.
detect_clusters(b, method, lib) ==
  IF ~GraphTruthy(b.graph) \/ Cardinality(DOMAIN b.graph.nodes) = 0
    THEN [builder |-> b, value |-> EmptyDict]
  ELSE IF Cardinality(DOMAIN b.graph.adj) = 0
    THEN [builder |-> b, value |-> singleton_clusters(b.graph)]
  ELSE LET partition ==
             IF method \in {"louvain", "spectral"} /\ ~lib.fails
               THEN lib.labels ELSE single_cluster(b.graph)
       IN  [builder |-> [b EXCEPT !.last_partition = [set |-> TRUE, val |-> partition]],
            value   |-> partition]

\* round(): the nearest integer to num / den (den > 0), a tie to the even one.
RoundDiv(num, den) ==
  LET q == num \div den
      r == num - q * den
  IN  IF 2 * r < den THEN q
      ELSE IF 2 * r > den THEN q + 1
      ELSE IF q % 2 = 0 THEN q ELSE q + 1

\* nx.community.modularity(graph, communities) for the communities of a stored
\* partition, in millionths (round(., 6)): it raises when the communities are
\* not a partition of the graph's nodes, and when the graph has no edge.
modularity(g, partition) ==
  LET nodes == DOMAIN g.nodes
      ids   == Range(partition)
      comm(c) == {n \in DOMAIN partition : partition[n] = c}
      D     == SumOver([n \in nodes |-> strength(g, n)], nodes)
      L(c)  == SumOver([e \in DOMAIN g.adj |-> g.adj[e].weight],
                       {e \in DOMAIN g.adj : e \subseteq comm(c)})
      d(c)  == SumOver([n \in nodes |-> strength(g, n)], comm(c) \cap nodes)
  IN  IF DOMAIN partition # nodes THEN Raise("NotAPartition")
      ELSE IF D = 0 THEN Raise("ZeroDivisionError")
      ELSE Return(RoundDiv(1000000 * SumOver([c \in ids |-> 2 * L(c) * D - d(c) * d(c)], ids),
                           D * D))

\* get_network_stats: the number of nodes and edges, the average degree (a
\* fraction) and the modularity of the stored partition.  The other statistics
\* are real numbers computed by the graph library, and are not part of the model.
get_network_stats(b) ==
  IF ~GraphTruthy(b.graph) THEN EmptyDict
  ELSE LET g == b.graph
           n == Cardinality(DOMAIN g.nodes)
           basic ==
             [ num_nodes  |-> n,
               num_edges  |-> Cardinality(DOMAIN g.adj),
               avg_degree |-> IF n > 0
                                THEN [num |-> SumOver([x \in DOMAIN g.nodes |-> degree(g, x)],
                                                      DOMAIN g.nodes),
                                      den |-> n]
                                ELSE [num |-> 0, den |-> 1] ]
           partition == b.last_partition
       IN  IF partition.set /\ DOMAIN partition.val # {}
             THEN LET q == modularity(g, partition.val)
                  IN  [ num_nodes  |-> basic.num_nodes,
                        num_edges  |-> basic.num_edges,
                        avg_degree |-> basic.avg_degree,
                        modularity |-> IF q.ok THEN q.value ELSE 0 ]
             ELSE basic

\* dict.get(key, default) for a dict with string keys.
Get(d, key, default) == IF key \in DOMAIN d THEN d[key] ELSE default

\* round((count / max_count) * 100, 2), in hundredths.
normalized(count, max_count) == RoundDiv(count * 10000, max_count)

\* The smallest count in place of the largest.
min_count_of(b) ==
  IF DOMAIN b.word_counts # {}
    THEN CHOOSE m \in Range(b.word_counts) : \A x \in Range(b.word_counts) : m <= x
    ELSE 1

\* max(self.word_counts.values()) if self.word_counts else 1
max_count_of(b) == IF DOMAIN b.word_counts # {} THEN MaxValue(b.word_counts) ELSE 1

\* get_nodes_data: word, count and normalized score of every counted word
\* (a set of records: the list is sorted by score, ties in dict order).
get_nodes_data(b) ==
  { [word |-> w, count |-> b.word_counts[w],
     normalized |-> normalized(b.word_counts[w], max_count_of(b))] :
    w \in DOMAIN b.word_counts }

\* int(similarity * weight_multiplier), the similarity in ten-thousandths
\* (it is rounded to 4 decimals by its provider).
semantic_weight(similarity, weight_multiplier) ==
  (similarity * weight_multiplier) \div 10000

\* One iteration of the loop of add_semantic_edges on the state
\* st = [builder, added].
add_semantic_edge(st, edge, weight_multiplier) ==
  LET b == st.builder
      g == b.graph
      e == {edge.from, edge.to}
      weight == semantic_weight(edge.similarity, weight_multiplier)
      pair == IF StrLess(edge.to, edge.from)
                THEN <<edge.to, edge.from>> ELSE <<edge.from, edge.to>>
  IN  IF e \in DOMAIN g.adj
        THEN [ builder |->
                 [b EXCEPT !.graph.adj[e] =
                    [a \in DOMAIN @ \cup {"semantic_similarity"} |->
                       IF a = "weight" THEN Get(g.adj[e], "weight", 0) + weight
                       ELSE IF a = "semantic_similarity" THEN edge.similarity
                       ELSE g.adj[e][a]]],
               added |-> st.added ]
        ELSE [ builder |->
                 [b EXCEPT
                    !.graph.adj =
                       [x \in DOMAIN g.adj \cup {e} |->
                          IF x = e
                            THEN [weight |-> weight,
                                  semantic_similarity |-> edge.similarity,
                                  edge_type |-> "semantic"]
                            ELSE g.adj[x]],
                    !.edges =
                       [x \in DOMAIN b.edges \cup {pair} |->
                          IF x = pair THEN Get(b.edges, pair, 0) + weight
                          ELSE b.edges[x]]],
               added |-> st.added + 1 ]

RECURSIVE add_semantic_loop(_, _, _)
add_semantic_loop(st, semantic_edges, weight_multiplier) ==
  IF semantic_edges = <<>> THEN st
  ELSE add_semantic_loop(add_semantic_edge(st, Head(semantic_edges), weight_multiplier),
                         Tail(semantic_edges), weight_multiplier)

\* add_semantic_edges that leaves the pairs that are edges already alone.
add_semantic_edges_once(b, semantic_edges, weight_multiplier) ==
  IF ~GraphTruthy(b.graph) \/ Cardinality(DOMAIN b.graph.nodes) < 2
    THEN [builder |-> b, added |-> 0]
    ELSE add_semantic_loop([builder |-> b, added |-> 0],
                           SelectSeq(semantic_edges,
                                     LAMBDA e : {e.from, e.to} \notin DOMAIN b.graph.adj),
                           weight_multiplier)

\* add_semantic_edges, semantic_edges being what
\* semantic_analyzer.get_semantic_edges(words, threshold) returns.
add_semantic_edges(b, semantic_edges, weight_multiplier) ==
  IF ~GraphTruthy(b.graph) \/ Cardinality(DOMAIN b.graph.nodes) < 2
    THEN [builder |-> b, added |-> 0]
    ELSE add_semantic_loop([builder |-> b, added |-> 0], semantic_edges, weight_multiplier)

\* get_edges_list: one record per item of self.edges.
get_edges_list(b) ==
  { [from |-> pr[1], to |-> pr[2], weight |-> b.edges[pr]] : pr \in DOMAIN b.edges }

--------------------------------------------------------------------------
(* MultiGroupAnalyzer                                                      *)

\* _normalize_key: re.sub(r'\s+', '_', name.lower())
RECURSIVE collapse_spaces(_, _)
collapse_spaces(s, in_run) ==
  IF s = <<>> THEN <<>>
  ELSE IF IsSpace(Head(s))
    THEN (IF in_run THEN <<>> ELSE <<"_">>) \o collapse_spaces(Tail(s), TRUE)
    ELSE <<Lower(Head(s))>> \o collapse_spaces(Tail(s), FALSE)

normalize_key(name) == collapse_spaces(name, FALSE)

group_keys == [i \in DOMAIN group_names |-> normalize_key(group_names[i])]

num_groups == Len(group_names)

\* The global threshold for every group, whatever the per-group list.
global_thresholds(n, min_score_threshold, per_group_thresholds) ==
  [i \in 1..n |-> min_score_threshold]

\* analyze, "Build per-group thresholds list".  Scores and thresholds are in
\* hundredths; None and the empty list are both <<>>.
effective_thresholds(n, min_score_threshold, per_group_thresholds) ==
  IF per_group_thresholds # <<>> /\ Len(per_group_thresholds) = n
    THEN per_group_thresholds
    ELSE [i \in 1..n |-> min_score_threshold]

\* builder.word_counts.get(word, 0)
count_in(b, word) == IF word \in DOMAIN b.word_counts THEN b.word_counts[word] ELSE 0

\* round((count / max_counts[i]) * 100, 2) if count > 0 else 0
norm_in(b, word) ==
  IF count_in(b, word) > 0 THEN normalized(count_in(b, word), max_count_of(b)) ELSE 0

\* analyze, "Check threshold": the row of the word is skipped when no group
\* meets its threshold.
skipped(bs, thresholds, word) ==
  \A i \in DOMAIN bs : norm_in(bs[i], word) < thresholds[i]

\* The group whose values a per-group key of a row ends up holding: rows are
\* dicts keyed by f'{key}_...', filled in group order.
last_with_key(keys, k) ==
  CHOOSE i \in DOMAIN keys : keys[i] = k /\ \A j \in DOMAIN keys : keys[j] = k => j <= i

\* A row that carries a difference whatever the number of groups.
data_row_with_difference(bs, keys, all_metrics, all_clusters, word) ==
  LET n      == Len(bs)
      counts == [i \in 1..n |-> count_in(bs[i], word)]
      norms  == [i \in 1..n |-> norm_in(bs[i], word)]
      per    == [k \in Range(keys) |->
                   LET i == last_with_key(keys, k)
                       m == Get(all_metrics[i], word, [degree |-> 0, strength |-> 0])
                   IN  [ count      |-> counts[i],
                         normalized |-> norms[i],
                         cluster    |-> Get(all_clusters[i], word, -1),
                         degree     |-> m.degree,
                         strength   |-> m.strength ]]
  IN  [ word |-> word, per |-> per,
        avg_normalized |-> RoundDiv(SumOver(norms, 1..n), n),
        in_all |-> \A i \in 1..n : counts[i] > 0,
        group_count |-> Cardinality({i \in 1..n : counts[i] > 0}),
        difference |-> norms[1] - norms[n] ]

\* analyze, "Build data row with dynamic keys" and "Add computed fields".
data_row(bs, keys, all_metrics, all_clusters, word) ==
  LET n      == Len(bs)
      counts == [i \in 1..n |-> count_in(bs[i], word)]
      norms  == [i \in 1..n |-> norm_in(bs[i], word)]
      per    == [k \in Range(keys) |->
                   LET i == last_with_key(keys, k)
                       m == Get(all_metrics[i], word, [degree |-> 0, strength |-> 0])
                   IN  [ count      |-> counts[i],
                         normalized |-> norms[i],
                         cluster    |-> Get(all_clusters[i], word, -1),
                         degree     |-> m.degree,
                         strength   |-> m.strength ]]
      avg    == RoundDiv(SumOver(norms, 1..n), n)
      in_all == \A i \in 1..n : counts[i] > 0
      present == Cardinality({i \in 1..n : counts[i] > 0})
  IN  IF n = 2
        THEN [ word |-> word, per |-> per, avg_normalized |-> avg, in_all |-> in_all,
               group_count |-> present, difference |-> norms[1] - norms[2] ]
        ELSE [ word |-> word, per |-> per, avg_normalized |-> avg, in_all |-> in_all,
               group_count |-> present ]

\* The rows in the order of their words, whatever their scores.
RECURSIVE rows_by_word(_)
rows_by_word(rows) ==
  IF rows = {} THEN <<>>
  ELSE LET first == CHOOSE r \in rows : \A s \in rows :
                       r.word = s.word \/ StrLess(r.word, s.word)
       IN  <<first>> \o rows_by_word(rows \ {first})

\* list.sort(key=avg_normalized, reverse=True) of the rows.  The rows are made
\* in the iteration order of a set of words, which is arbitrary: rows with
\* equal keys are listed here in the order of their words.
RECURSIVE sort_rows(_)
sort_rows(rows) ==
  IF rows = {} THEN <<>>
  ELSE LET first == CHOOSE r \in rows : \A s \in rows :
                       \/ r.avg_normalized > s.avg_normalized
                       \/ /\ r.avg_normalized = s.avg_normalized
                          /\ (r.word = s.word \/ StrLess(r.word, s.word))
       IN  <<first>> \o sort_rows(rows \ {first})

\* The edges of the first builder alone.
first_edges(bs) == [pr \in DOMAIN bs[1].edges |-> bs[1].edges[pr]]

\* analyze, "Combine edges from all networks": a defaultdict keyed by the
\* (w1, w2) tuples of the builders' edge tables.
combine_edges(bs) ==
  LET pairs == UNION {DOMAIN bs[i].edges : i \in DOMAIN bs}
  IN  [pr \in pairs |->
         SumOver([i \in DOMAIN bs |-> Get(bs[i].edges, pr, 0)], DOMAIN bs)]

\* The items of a dict keyed by pairs of words as a list, in key order.
RECURSIVE edge_list(_, _)
edge_list(d, keys) ==
  IF keys = {} THEN <<>>
  ELSE LET k == CHOOSE x \in keys : \A y \in keys :
                  \/ x = y
                  \/ StrLess(x[1], y[1])
                  \/ (x[1] = y[1] /\ StrLess(x[2], y[2]))
       IN  <<[from |-> k[1], to |-> k[2], weight |-> d[k]]>> \o edge_list(d, keys \ {k})

\* The combined edges with no word left out.
all_combined(combined, valid_words) == edge_list(combined, DOMAIN combined)

\* analyze, "Filter edges to only include words in analysis".
filter_combined(combined, valid_words) ==
  edge_list(combined, {pr \in DOMAIN combined : pr[1] \in valid_words /\ pr[2] \in valid_words})

\* analyze, "Build stats" and "Per-group stats".
build_stats(bs, keys, all_clusters, data, edges) ==
  [ total_words  |-> Len(data),
    words_in_all |-> Cardinality({i \in DOMAIN data : data[i].in_all}),
    total_edges  |-> Len(edges),
    per |-> [k \in Range(keys) |->
               LET i == last_with_key(keys, k)
               IN  [ total      |-> Cardinality({j \in DOMAIN data : data[j].per[k].count > 0}),
                     clusters   |-> Cardinality(Range(all_clusters[i])),
                     modularity |-> Get(get_network_stats(bs[i]), "modularity", 0) ]] ]

\* The first builder of the loop "Calculate metrics and clusters for each
\* group" whose calculate_centrality_metrics raises; 0 when none does.
first_failure(bs) ==
  IF \A i \in DOMAIN bs : calculate_centrality_metrics(bs[i]).ok THEN 0
  ELSE CHOOSE i \in DOMAIN bs :
         /\ ~calculate_centrality_metrics(bs[i]).ok
         /\ \A j \in 1..(i - 1) : calculate_centrality_metrics(bs[j]).ok

\* analyze, "Build networks for each group".
build_all(bs, p, texts_list, min_frequency) ==
  [i \in DOMAIN bs |-> build_network(bs[i], p, texts_list[i], min_frequency, 1)]

\* analyze, "Combine edges from all networks" to the return: the analyzer
\* after the call and the stats it returns.
combine_and_return(bs, keys, all_clusters, data, edges) ==
  [ analyzer |-> [builders |-> bs, analysis_data |-> data, combined_edges |-> edges],
    outcome  |-> Return(build_stats(bs, keys, all_clusters, data, edges)) ]

\* analyze, "Build comparison data" and "Sort by average normalized score".
comparison_data(bs, keys, thresholds, all_metrics, all_clusters) ==
  sort_rows({data_row(bs, keys, all_metrics, all_clusters, w) :
               w \in {x \in UNION {DOMAIN bs[i].word_counts : i \in DOMAIN bs} :
                        ~skipped(bs, thresholds, x)}})

filter_and_return(bs, keys, all_clusters, data) ==
  combine_and_return(bs, keys, all_clusters, data,
                     filter_combined(combine_edges(bs),
                                     {data[i].word : i \in DOMAIN data}))

build_comparison(bs, keys, thresholds, all_metrics, all_clusters) ==
  filter_and_return(bs, keys, all_clusters,
                    comparison_data(bs, keys, thresholds, all_metrics, all_clusters))

\* analyze, "Calculate metrics and clusters for each group": the loop stops at
\* the first builder whose metrics raise, leaving the builders before it
\* clustered.
metrics_and_clusters(a, keys, thresholds, built, fail, clustered) ==
  IF fail # 0
    THEN [ analyzer |->
             [a EXCEPT !.builders =
                [i \in DOMAIN built |-> IF i < fail THEN clustered[i].builder ELSE built[i]]],
           outcome |-> Raise(calculate_centrality_metrics(built[fail]).error) ]
    ELSE build_comparison([i \in DOMAIN built |-> clustered[i].builder], keys, thresholds,
                          [i \in DOMAIN built |-> calculate_centrality_metrics(built[i]).value],
                          [i \in DOMAIN built |-> clustered[i].value])

build_and_cluster(a, keys, thresholds, built, cluster_method, outcome) ==
  metrics_and_clusters(a, keys, thresholds, built, first_failure(built),
                       [i \in DOMAIN built |->
                          detect_clusters(built[i], cluster_method,
                                          library(built[i].graph, outcome))])

\* An analyze that cuts or pads the lists of texts to the number of groups
\* instead of raising.
analyze_padded(a, p, names, texts_list, min_frequency, min_score_threshold, per_group_thresholds, cluster_method, outcome) ==
  build_and_cluster(a, [i \in DOMAIN names |-> normalize_key(names[i])],
                    effective_thresholds(Len(names), min_score_threshold,
                                         per_group_thresholds),
                    build_all(a.builders, p,
                              [i \in DOMAIN names |->
                                 IF i <= Len(texts_list) THEN texts_list[i] ELSE <<>>],
                              min_frequency),
                    cluster_method, outcome)

\* analyze.  a is the analyzer [builders, analysis_data, combined_edges], outcome
\* what the clustering library does when it is called.  The result is the analyzer
\* after the call and the outcome of the call.
analyze(a, p, names, texts_list, min_frequency, min_score_threshold, per_group_thresholds, cluster_method, outcome) ==
  IF Len(texts_list) # Len(names)
    THEN [analyzer |-> a, outcome |-> Raise("ValueError")]
    ELSE build_and_cluster(a, [i \in DOMAIN names |-> normalize_key(names[i])],
                           effective_thresholds(Len(names), min_score_threshold,
                                                per_group_thresholds),
                           build_all(a.builders, p, texts_list, min_frequency),
                           cluster_method, outcome)
--------------------------------------------------------------------------
(* Inputs                                                                  *)

w_and    == <<"a","n","d">>
w_the    == <<"t","h","e">>
w_of     == <<"o","f">>
w_cat    == <<"c","a","t">>
w_cats   == <<"c","a","t","s">>
w_dog    == <<"d","o","g">>
w_dogs   == <<"d","o","g","s">>
w_bird   == <<"b","i","r","d">>
w_birds  == <<"b","i","r","d","s">>
w_fish   == <<"f","i","s","h">>
w_thes   == <<"t","h","e","s">>
w_color  == <<"c","o","l","o","r">>
w_colors == <<"c","o","l","o","r","s">>
w_colour == <<"c","o","l","o","u","r">>
w_ox     == <<"o","x">>
w_a      == <<"a">>
w_is     == <<"i","s">>
w_CatC   == <<"C","a","t",",">>
w_DOGx   == <<"D","O","G","!">>
w_glass  == <<"g","l","a","s","s">>
w_boxes  == <<"b","o","x","e","s">>
w_cities == <<"c","i","t","i","e","s">>
w_bang   == <<"!","!">>
w_buses  == <<"b","u","s","e","s">>

t_cats_and_dogs  == Join(<<w_cats, w_and, w_dogs>>)
t_dogs_and_birds == Join(<<w_dogs, w_and, w_birds>>)
t_birds_and_fish == Join(<<w_birds, w_and, w_fish>>)
t_the_of         == Join(<<w_the, w_of>>)
t_dog            == w_dog
t_dog_dog_cat    == Join(<<w_dog, w_dog, w_cat>>)
t_Cat_DOG        == <<" ">> \o w_CatC \o <<" ", " ">> \o w_DOGx
t_fish           == w_fish

\* The largest min_frequency and min_edge_weight a call is made with.
MaxFreq == 2
MaxEdgeWeight == 2

\* The largest number of groups of an analyzer.
MaxGroups == 3

\* add_semantic_edges is not called on a graph with an edge heavier than this.
MaxWeight == 7

\* Scores and thresholds are in hundredths of a percent point: 2.0 is 200.
Hundred == 100 * 100

--------------------------------------------------------------------------
(* A stand-alone NetworkBuilder: build_network, detect_clusters and        *)
(* add_semantic_edges in any order (SpecBuilder).                          *)

\* NetworkBuilder(): text_processor or TextProcessor()
BuilderProcessors == { TextProcessor(NoSet, {}, EmptyDict, 2, TRUE) }

BuilderTexts ==
  { <<>>,
    <<t_the_of>>,
    <<t_dog, NotAString>>,
    <<t_dog, t_fish>>,
    <<t_cats_and_dogs, t_dogs_and_birds>>,
    <<t_cats_and_dogs, t_dog_dog_cat, t_fish>>,
    <<t_Cat_DOG, t_fish>> }

ClusterMethods == {"louvain", "spectral", "kmeans"}

\* What a similarity provider may return for the words of a graph: pairs
\* (earlier word first) with a similarity at or above the threshold.
Similarities == {7000}

RECURSIVE SetToSeq(_)
SetToSeq(S) ==
  IF S = {} THEN <<>>
  ELSE LET x == CHOOSE y \in S : TRUE IN <<x>> \o SetToSeq(S \ {x})

SemanticEdges(g) ==
  LET idx(n) == CHOOSE i \in DOMAIN g.order : g.order[i] = n
      ok == { e \in [from : DOMAIN g.nodes, to : DOMAIN g.nodes, similarity : Similarities] :
              idx(e.from) < idx(e.to) }
      before(e, f) == \/ idx(e.from) < idx(f.from)
                      \/ (e.from = f.from /\ idx(e.to) < idx(f.to))
  IN  {<<>>} \cup {<<e>> : e \in ok}
      \cup {<<pr[1], pr[2]>> : pr \in {x \in ok \X ok : before(x[1], x[2])}}

InitBuilder ==
  /\ processor \in BuilderProcessors
  /\ ctor_args = NoSet
  /\ group_names = <<>>
  /\ builders = <<NetworkBuilder>>
  /\ analysis_data = <<>>
  /\ combined_edges = <<>>
  /\ ret = [op |-> "__init__"]
  /\ heap = <<>>
  /\ alone = <<>>
  /\ cache = <<>>
  /\ analyses_today = 0
  /\ requests = <<>>
  /\ served = 0

BuildNetwork(texts, min_frequency, min_edge_weight) ==
  /\ builders' = <<build_network(builders[1], processor, texts, min_frequency, min_edge_weight)>>
  /\ ret' = [op |-> "build_network", texts |-> texts, min_frequency |-> min_frequency,
             min_edge_weight |-> min_edge_weight]
  /\ UNCHANGED <<processor, ctor_args, group_names, analysis_data, combined_edges, heap, alone,
               cache, analyses_today, requests, served>>

DetectClusters(method, outcome) ==
  \E r \in {detect_clusters(builders[1], method, library(builders[1].graph, outcome))} :
      /\ builders' = <<r.builder>>
      /\ ret' = [op |-> "detect_clusters", method |-> method, value |-> r.value]
      /\ UNCHANGED <<processor, ctor_args, group_names, analysis_data, combined_edges, heap, alone,
                   cache, analyses_today, requests, served>>

AddSemanticEdges(semantic_edges) ==
  \E r \in {add_semantic_edges(builders[1], semantic_edges, 10)} :
      /\ \A e \in DOMAIN builders[1].graph.adj : builders[1].graph.adj[e].weight <= MaxWeight
      /\ builders' = <<r.builder>>
      /\ ret' = [op |-> "add_semantic_edges", semantic_edges |-> semantic_edges,
                 value |-> r.added,
                 edges_before |-> Cardinality(DOMAIN builders[1].graph.adj)]
      /\ UNCHANGED <<processor, ctor_args, group_names, analysis_data, combined_edges, heap, alone,
                   cache, analyses_today, requests, served>>

NextBuilder ==
  \/ \E texts \in BuilderTexts, f \in 1..MaxFreq, m \in 1..MaxEdgeWeight :
       BuildNetwork(texts, f, m)
  \/ \E method \in ClusterMethods, outcome \in LibOutcomes :
       DetectClusters(method, outcome)
  \/ \E semantic_edges \in SemanticEdges(builders[1].graph) :
       AddSemanticEdges(semantic_edges)

SpecBuilder == InitBuilder /\ [][NextBuilder]_vars

--------------------------------------------------------------------------
(* A MultiGroupAnalyzer: analyze, once over a wide range of arguments and  *)
(* then again over a few (Spec).                                           *)

n_GroupA == <<"G","r","o","u","p"," ","A">>
n_GroupB == <<"G","r","o","u","p"," ","B">>
n_GroupC == <<"G","r","o","u","p"," ","C">>
n_GroupD == <<"g","r","o","u","p"," "," ","d">>
n_GroupE == <<"G","r","o","u","p"," ","E">>

\* A name that differs from "Group A" in case and spacing only.
n_group_a == <<"g","r","o","u","p"," "," ","a">>

AllNames == <<n_GroupA, n_GroupB, n_GroupC, n_GroupD, n_GroupE>>

NameLists ==
  {SubSeq(AllNames, 1, n) : n \in 1..MaxGroups} \cup {<<n_GroupA, n_group_a>>}

\* MultiGroupAnalyzer(group_names): the processor it constructs.
AnalyzerProcessors == { TextProcessor(NoSet, {}, EmptyDict, 2, TRUE) }

GroupTexts ==
  { <<t_cats_and_dogs, t_dogs_and_birds>>,
    <<t_birds_and_fish>>,
    <<t_the_of>> }

\* min_score_threshold: 0, the default 2.0, 60.0 and 100.0.
GlobalThresholds == {0, 200, 6000, Hundred}

\* The values of a per-group threshold: 0 and 60.0.
GroupThresholds == {0, 6000}

Arguments(texts_list, f, threshold, per_group, method, outcome) ==
  [ texts_list |-> texts_list, min_frequency |-> f, min_score_threshold |-> threshold,
    per_group_thresholds |-> per_group, cluster_method |-> method, library |-> outcome ]

\* Calls with as many text lists as groups: every threshold setting with the
\* default clustering, and every clustering with the default thresholds.
MatchingArguments(n) ==
  LET lists == [1..n -> GroupTexts]
      per   == [1..n -> GroupThresholds] \cup {[i \in 1..(n + 1) |-> 0]}
  IN  { Arguments(l, f, t, <<>>, "louvain", "one") :
          l \in lists, f \in 1..MaxFreq, t \in GlobalThresholds }
      \cup { Arguments(l, f, 200, p, "louvain", "one") :
          l \in lists, f \in 1..MaxFreq, p \in per }
      \cup { Arguments(l, 1, 200, <<>>, m, o) :
          l \in lists, m \in ClusterMethods, o \in LibOutcomes }

\* Groups of a single document each (scenario 2 of the specification).
SingleDocuments ==
  { <<t_cats_and_dogs>>, <<t_birds_and_fish>>, <<Join(<<w_glass, w_color, w_ox>>)>> }

SingleDocumentArguments(n) ==
  { Arguments(l, f, 200, <<>>, "louvain", "one") :
      l \in [1..n -> SingleDocuments], f \in 1..MaxFreq }

\* Calls with one text list too few or too many.
MismatchedArguments(n) ==
  { Arguments([i \in 1..k |-> <<t_cats_and_dogs, t_dogs_and_birds>>],
              1, 200, <<>>, "louvain", "one") : k \in {n - 1, n + 1} }

\* The arguments of a later call on the same analyzer.
RepeatArguments(n) ==
  { Arguments([i \in 1..n |-> l], 1, 0, <<>>, "louvain", "each") : l \in GroupTexts }

Init ==
  /\ processor \in AnalyzerProcessors
  /\ ctor_args = NoSet
  /\ group_names \in NameLists
  /\ builders = [i \in DOMAIN group_names |-> NetworkBuilder]
  /\ analysis_data = <<>>
  /\ combined_edges = <<>>
  /\ ret = [op |-> "__init__"]
  /\ heap = <<>>
  /\ alone = <<>>
  /\ cache = <<>>
  /\ analyses_today = 0
  /\ requests = <<>>
  /\ served = 0

Analyze(args) ==
  \E r \in {analyze([builders |-> builders, analysis_data |-> analysis_data,
                     combined_edges |-> combined_edges],
                    processor, group_names, args.texts_list, args.min_frequency,
                    args.min_score_threshold, args.per_group_thresholds,
                    args.cluster_method, args.library)} :
      /\ builders' = r.analyzer.builders
      /\ analysis_data' = r.analyzer.analysis_data
      /\ combined_edges' = r.analyzer.combined_edges
      /\ ret' = [op |-> "analyze", args |-> args, outcome |-> r.outcome]
      /\ UNCHANGED <<processor, ctor_args, group_names, heap, alone,
                   cache, analyses_today, requests, served>>

AnalyzeFirst ==
  /\ ret.op = "__init__"
  /\ \E args \in MatchingArguments(num_groups) \cup MismatchedArguments(num_groups)
                    \cup SingleDocumentArguments(num_groups) :
       Analyze(args)

AnalyzeAgain ==
  /\ ret.op # "__init__"
  /\ \E args \in RepeatArguments(num_groups) \cup MismatchedArguments(num_groups) :
       Analyze(args)

Next == AnalyzeFirst \/ AnalyzeAgain

Spec == Init /\ [][Next]_vars


--------------------------------------------------------------------------
(* A TextProcessor on its own: the words of a text under every             *)
(* configuration (SpecNormalize).                                          *)

\* The largest min_word_length of a processor.
MaxMinLength == 3

\* The largest number of explicit mappings and of deleted words added.
MaxMappings == 1
MaxDeleted == 1

\* The stopwords argument: None, an empty set (both give the default list),
\* or a list of the caller's.
StopwordArguments == { NoSet, SomeSet({}), SomeSet({w_cat}) }

\* (source, target) of the mappings a caller adds.
MappingPairs ==
  { <<w_cats, w_a>>, <<w_dogs, w_the>>, <<w_color, w_colors>>, <<w_color, w_colour>>,
    <<w_CatC, w_dog>> }

DeletedWords == { w_dog, w_colour, w_DOGx }

NormalizerTexts ==
  { <<>>, NotAString, t_cats_and_dogs, t_Cat_DOG,
    Join(<<w_thes, w_colors>>),
    Join(<<w_glass, w_boxes, w_cities, w_is>>),
    Join(<<w_bang, w_ox, w_color>>) }

NormalizerWords ==
  { w_thes, w_cats, w_CatC, w_bang, w_boxes, w_buses, w_glass, w_cities, w_color, w_colors }

InitNormalize ==
  /\ ctor_args \in StopwordArguments
  /\ \E l \in 1..MaxMinLength, u \in BOOLEAN :
       processor = TextProcessor(ctor_args, {}, EmptyDict, l, u)
  /\ group_names = <<>>
  /\ builders = <<>>
  /\ analysis_data = <<>>
  /\ combined_edges = <<>>
  /\ ret = [op |-> "__init__"]
  /\ heap = <<>>
  /\ alone = <<>>
  /\ cache = <<>>
  /\ analyses_today = 0
  /\ requests = <<>>
  /\ served = 0

AddMapping(source, target) ==
  /\ Cardinality(DOMAIN processor.word_mappings) < MaxMappings
  /\ processor' = add_mapping(processor, source, target)
  /\ ret' = [op |-> "add_mapping"]
  /\ UNCHANGED <<ctor_args, group_names, builders, analysis_data, combined_edges, heap, alone,
               cache, analyses_today, requests, served>>

AddDeleteWord(word) ==
  /\ Cardinality(processor.delete_words) < MaxDeleted
  /\ processor' = add_delete_word(processor, word)
  /\ ret' = [op |-> "add_delete_word"]
  /\ UNCHANGED <<ctor_args, group_names, builders, analysis_data, combined_edges, heap, alone,
               cache, analyses_today, requests, served>>

ProcessWord(word) ==
  /\ ret' = [op |-> "process_word", word |-> word, value |-> process_word(processor, word)]
  /\ UNCHANGED <<processor, ctor_args, group_names, builders, analysis_data, combined_edges, heap, alone,
               cache, analyses_today, requests, served>>

GetSingular(word) ==
  /\ ret' = [op |-> "get_singular", word |-> word, value |-> get_singular(processor, word)]
  /\ UNCHANGED <<processor, ctor_args, group_names, builders, analysis_data, combined_edges, heap, alone,
               cache, analyses_today, requests, served>>

ProcessText(text) ==
  /\ ret' = [op |-> "process_text", text |-> text, value |-> process_text(processor, text)]
  /\ UNCHANGED <<processor, ctor_args, group_names, builders, analysis_data, combined_edges, heap, alone,
               cache, analyses_today, requests, served>>

NextNormalize ==
  \/ \E pr \in MappingPairs : AddMapping(pr[1], pr[2])
  \/ \E word \in DeletedWords : AddDeleteWord(word)
  \/ \E word \in NormalizerWords : ProcessWord(word)
  \/ \E word \in NormalizerWords : GetSingular(word)
  \/ \E text \in NormalizerTexts : ProcessText(text)

SpecNormalize == InitNormalize /\ [][NextNormalize]_vars

--------------------------------------------------------------------------
(* The scores of analyze and get_nodes_data over large counts              *)
(* (SpecScore).  A word counted c times is a word of c documents: the word *)
(* counts that build_network leaves are drawn, in place of the documents.  *)

\* The largest number of occurrences of a word.
MaxCount == 20001

ScoreCounts == { 1, 2, MaxCount - 3, MaxCount }

ScoreWords == { w_cat, w_dog }

ScoreNames == { <<n_GroupA>>, <<n_GroupA, n_GroupB>> }

\* Every way of counting some of the words.
WordCounts == UNION { [ws -> ScoreCounts] : ws \in (SUBSET ScoreWords) \ {{}} }

\* The builder that build_network leaves for documents of one word each:
\* every word a node with its count, and no edges.
counted(word_counts) ==
  LET b == build_network(NetworkBuilder, TextProcessor(NoSet, {}, EmptyDict, 2, TRUE),
                         SetToSeq(DOMAIN word_counts), 1, 1)
  IN  [b EXCEPT !.word_counts = word_counts,
                !.graph.nodes = [w \in DOMAIN word_counts |-> [count |-> word_counts[w]]]]

InitScore ==
  /\ processor \in AnalyzerProcessors
  /\ ctor_args = NoSet
  /\ group_names \in ScoreNames
  /\ builders \in [DOMAIN group_names -> {counted(wc) : wc \in WordCounts}]
  /\ analysis_data = <<>>
  /\ combined_edges = <<>>
  /\ ret = [op |-> "__init__"]
  /\ heap = <<>>
  /\ alone = <<>>
  /\ cache = <<>>
  /\ analyses_today = 0
  /\ requests = <<>>
  /\ served = 0

GetNodesData(i) ==
  /\ ret' = [op |-> "get_nodes_data", group |-> i, value |-> get_nodes_data(builders[i])]
  /\ UNCHANGED <<processor, ctor_args, group_names, builders, analysis_data, combined_edges, heap, alone,
               cache, analyses_today, requests, served>>

\* analyze from "Calculate metrics and clusters for each group" on, over the
\* builders at hand.
AnalyzeCounted(min_score_threshold) ==
  \E r \in {build_and_cluster([builders |-> builders, analysis_data |-> analysis_data,
                               combined_edges |-> combined_edges],
                              group_keys,
                              effective_thresholds(num_groups, min_score_threshold, <<>>),
                              builders, "louvain", "one")} :
      /\ builders' = r.analyzer.builders
      /\ analysis_data' = r.analyzer.analysis_data
      /\ combined_edges' = r.analyzer.combined_edges
      /\ ret' = [op |-> "analyze",
                 args |-> [min_score_threshold |-> min_score_threshold,
                           per_group_thresholds |-> <<>>],
                 outcome |-> r.outcome]
      /\ UNCHANGED <<processor, ctor_args, group_names, heap, alone,
                   cache, analyses_today, requests, served>>

NextScore ==
  \/ \E i \in DOMAIN builders : GetNodesData(i)
  \/ \E t \in {0, 200} : AnalyzeCounted(t)

SpecScore == InitScore /\ [][NextScore]_vars

--------------------------------------------------------------------------
(* Properties                                                              *)

\* C1 (SpecNormalize): no word that process_word or process_text emits is
\* shorter than min_word_length, a stopword or a deleted word, whether or not
\* a mapping or the plural unification produced it.
C1_EmittedWordsPassEveryFilter ==
  LET passes(w) == /\ Len(w) >= processor.min_word_length
                   /\ w \notin processor.stopwords
                   /\ w \notin processor.delete_words
  IN  /\ ret.op = "process_text" => \A i \in DOMAIN ret.value : passes(ret.value[i])
      /\ ret.op = "process_word" /\ ret.value # None => passes(ret.value)

\* C2 (Spec): analyze, called with one list of texts per group, returns a
\* result however degenerate the graph of a group is (no node, one node, no
\* edge).
C2_DegenerateGroupsAnalyzed ==
  ret.op = "analyze" /\ Len(ret.args.texts_list) = num_groups => ret.outcome.ok

\* C3 (Spec): a call of analyze with a number of text lists other than the
\* number of groups raises ValueError and changes nothing: not the builders
\* (graph, word counts, edges, stored partition), not the stored analysis
\* data, not the combined edges.
C3_MismatchRejectedUnchanged ==
  [][ ret'.op = "analyze" /\ Len(ret'.args.texts_list) # Len(group_names)
        => /\ ret'.outcome = Raise("ValueError")
           /\ UNCHANGED <<builders, analysis_data, combined_edges,
                          processor, group_names>> ]_vars

\* A rejected call on an analyzer that holds the data of an earlier call.
C3_Witness ==
  /\ ret.op = "analyze"
  /\ Len(ret.args.texts_list) # num_groups
  /\ ~ret.outcome.ok
  /\ analysis_data # <<>>
  /\ \A i \in DOMAIN builders : builders[i].graph.built

\* C4 (SpecBuilder): after build_network with min_frequency f and
\* min_edge_weight m the nodes are exactly the words that occur at least f
\* times in the texts, each with its count; every edge joins two distinct
\* nodes and weighs at least m.
C4_BuildFiltersNodesAndEdges ==
  ret.op = "build_network" =>
    LET g      == builders[1].graph
        counts == process_texts(processor, ret.texts).word_counts
        kept   == {w \in DOMAIN counts : counts[w] >= ret.min_frequency}
    IN  /\ DOMAIN g.nodes = kept
        /\ \A w \in kept : g.nodes[w].count = counts[w]
        /\ \A e \in DOMAIN g.adj :
             /\ Cardinality(e) = 2
             /\ e \subseteq kept
             /\ g.adj[e].weight >= ret.min_edge_weight

\* A build that drops a word for its frequency and keeps an edge.
C4_Witness ==
  /\ ret.op = "build_network"
  /\ ret.min_frequency = 2
  /\ DOMAIN builders[1].graph.adj # {}
  /\ \E w \in DOMAIN process_texts(processor, ret.texts).word_counts :
       w \notin DOMAIN builders[1].graph.nodes

\* C5 (SpecBuilder): after build_network, two distinct nodes u and v are
\* joined iff the number n of texts whose words include both is at least 1
\* and at least min_edge_weight, and the weight of the edge is n.
C5_EdgeWeightIsDocumentCount ==
  ret.op = "build_network" =>
    LET g    == builders[1].graph
        docs == [i \in DOMAIN ret.texts |-> Range(process_text(processor, ret.texts[i]))]
        n(u, v) == Cardinality({i \in DOMAIN docs : u \in docs[i] /\ v \in docs[i]})
    IN  \A u, v \in DOMAIN g.nodes :
          u # v =>
            /\ {u, v} \in DOMAIN g.adj <=> (n(u, v) >= 1 /\ n(u, v) >= ret.min_edge_weight)
            /\ {u, v} \in DOMAIN g.adj => g.adj[{u, v}].weight = n(u, v)

\* A build over texts one of which repeats a word, with an edge of two texts
\* and two nodes left unjoined.
C5_Witness ==
  /\ ret.op = "build_network"
  /\ \E i \in DOMAIN ret.texts :
       LET words == process_text(processor, ret.texts[i])
       IN  Len(words) > Cardinality(Range(words))
  /\ \E e \in DOMAIN builders[1].graph.adj : builders[1].graph.adj[e].weight = 2
  /\ \E u, v \in DOMAIN builders[1].graph.nodes :
       u # v /\ {u, v} \notin DOMAIN builders[1].graph.adj

\* C6 (Spec): after analyze, a word of some group's graph has a row iff its
\* normalized score in some group is at least the threshold of that group:
\* per_group_thresholds[i] when the list is given with one entry per group,
\* min_score_threshold otherwise.  No row is for any other word.
C6_IncludedIffSomeThresholdMet ==
  ret.op = "analyze" /\ ret.outcome.ok =>
    LET n   == num_groups
        per == ret.args.per_group_thresholds
        threshold(i) == IF per # <<>> /\ Len(per) = n
                          THEN per[i] ELSE ret.args.min_score_threshold
        score(i, w)  == LET wc == builders[i].word_counts
                        IN  IF w \in DOMAIN wc
                              THEN RoundDiv(wc[w] * Hundred, MaxValue(wc)) ELSE 0
        words == UNION {DOMAIN builders[i].graph.nodes : i \in 1..n}
        rows  == {analysis_data[r].word : r \in DOMAIN analysis_data}
    IN  /\ rows \subseteq words
        /\ \A w \in words : w \in rows <=> \E i \in 1..n : score(i, w) >= threshold(i)

\* An analyze with per-group thresholds that leaves a word out and a word in.
C6_Witness ==
  /\ ret.op = "analyze" /\ ret.outcome.ok
  /\ Len(ret.args.per_group_thresholds) = num_groups
  /\ analysis_data # <<>>
  /\ \E i \in DOMAIN builders : \E w \in DOMAIN builders[i].graph.nodes :
       \A r \in DOMAIN analysis_data : analysis_data[r].word # w

\* C7 (Spec): every row of analyze is for a word that occurs in some group
\* whose threshold its score in that group meets.
C7_RowsMeetThresholdWhereTheyOccur ==
  ret.op = "analyze" /\ ret.outcome.ok =>
    LET n   == num_groups
        per == ret.args.per_group_thresholds
        threshold(i) == IF per # <<>> /\ Len(per) = n
                          THEN per[i] ELSE ret.args.min_score_threshold
    IN  \A r \in DOMAIN analysis_data :
          \E i \in 1..n :
            LET wc == builders[i].word_counts
                w  == analysis_data[r].word
            IN  /\ w \in DOMAIN wc
                /\ wc[w] > 0
                /\ RoundDiv(wc[w] * Hundred, MaxValue(wc)) >= threshold(i)

\* C8 (SpecScore), as the code has it: in every row of analyze and for every
\* group, the score is between 0 and 100; it is 100 for a word counted as
\* often as the most frequent word of the group, positive for a word counted
\* more than a 20000th as often, and 0 with count 0 for a word the group does
\* not have.  get_nodes_data gives the same scores.
C8_ScoresWithinHundred ==
  /\ ret.op = "analyze" /\ ret.outcome.ok =>
       \A r \in DOMAIN analysis_data : \A i \in DOMAIN builders :
         LET row == analysis_data[r].per[group_keys[i]]
             wc  == builders[i].word_counts
             w   == analysis_data[r].word
         IN  /\ 0 <= row.normalized /\ row.normalized <= Hundred
             /\ w \in DOMAIN wc => row.count = wc[w]
             /\ w \in DOMAIN wc /\ wc[w] = MaxValue(wc) => row.normalized = Hundred
             /\ w \in DOMAIN wc /\ wc[w] * 2 * Hundred > MaxValue(wc) => row.normalized > 0
             /\ w \notin DOMAIN wc => row.count = 0 /\ row.normalized = 0
  /\ ret.op = "get_nodes_data" =>
       \A d \in ret.value :
         /\ 0 <= d.normalized /\ d.normalized <= Hundred
         /\ d.count = MaxValue(builders[ret.group].word_counts) => d.normalized = Hundred

\* A row whose word occurs in a group and scores 0.0 there, next to a word
\* that scores 100.
C8_Witness ==
  /\ ret.op = "analyze" /\ ret.outcome.ok
  /\ \E r \in DOMAIN analysis_data : \E i \in DOMAIN builders :
       /\ analysis_data[r].per[group_keys[i]].count > 0
       /\ analysis_data[r].per[group_keys[i]].normalized = 0
  /\ \E r \in DOMAIN analysis_data : \E i \in DOMAIN builders :
       analysis_data[r].per[group_keys[i]].normalized = Hundred

\* C8 as stated: every word of a group scores above 0 and at most 100 in it.
C8_PresentWordsScorePositive ==
  ret.op = "analyze" /\ ret.outcome.ok =>
    \A r \in DOMAIN analysis_data : \A i \in DOMAIN builders :
      LET row == analysis_data[r].per[group_keys[i]]
      IN  analysis_data[r].word \in DOMAIN builders[i].word_counts
            => 0 < row.normalized /\ row.normalized <= Hundred

\* C9 (SpecBuilder): the degree and the strength that
\* calculate_centrality_metrics returns for a node are at most 1 (and at
\* least 0), being divided by the largest over the nodes.
C9_DegreeAndStrengthInUnitInterval ==
  ret.op = "build_network" /\ calculate_centrality_metrics(builders[1]).ok =>
    LET metrics == calculate_centrality_metrics(builders[1]).value
    IN  \A n \in DOMAIN metrics :
          /\ 0 <= metrics[n].degree /\ metrics[n].degree <= 1
          /\ 0 <= metrics[n].strength /\ metrics[n].strength <= 1

\* C10 (SpecBuilder): after build_network, whatever was built, clustered or
\* added before, the graph (nodes in order, counts, edges and their
\* attributes), word_counts and edges of the builder are those of a new
\* builder given the same texts, min_frequency and min_edge_weight.
C10_BuildRebuildsWholesale ==
  ret.op = "build_network" =>
    LET fresh == build_network(NetworkBuilder, processor, ret.texts,
                               ret.min_frequency, ret.min_edge_weight)
    IN  /\ builders[1].graph = fresh.graph
        /\ builders[1].word_counts = fresh.word_counts
        /\ builders[1].edges = fresh.edges

\* A build on a builder that keeps the partition of an earlier graph, one
\* with a word the new graph does not have.
C10_Witness ==
  /\ ret.op = "build_network"
  /\ builders[1].last_partition.set
  /\ DOMAIN builders[1].graph.nodes # {}
  /\ \E w \in DOMAIN builders[1].last_partition.val :
       w \notin DOMAIN builders[1].graph.nodes

\* C11 (SpecBuilder): after build_network and before any detect_clusters on
\* the new graph, get_network_stats reports no modularity, or 0.0: it does
\* not compute one from the partition of the graph built before.
C11_NoModularityFromEarlierGraph ==
  ret.op = "build_network" =>
    Get(get_network_stats(builders[1]), "modularity", 0) = 0

\* C12 (SpecBuilder): the partition that detect_clusters returns has exactly
\* the nodes of the graph as its keys, whatever the method and whatever the
\* clustering library does; on a graph without edges the ids of distinct
\* nodes are distinct.
C12_PartitionCoversNodes ==
  ret.op = "detect_clusters" =>
    LET g == builders[1].graph
    IN  /\ DOMAIN ret.value = DOMAIN g.nodes
        /\ DOMAIN g.adj = {} =>
             \A u, v \in DOMAIN g.nodes : u # v => ret.value[u] # ret.value[v]

\* A detect_clusters on a graph of several nodes and no edge.
C12_Witness ==
  /\ ret.op = "detect_clusters"
  /\ DOMAIN builders[1].graph.adj = {}
  /\ Cardinality(DOMAIN builders[1].graph.nodes) >= 2
  /\ DOMAIN ret.value = DOMAIN builders[1].graph.nodes

\* C13 (SpecBuilder), as the code has it: for a method other than "louvain"
\* and "spectral", detect_clusters on a graph with an edge returns cluster 0
\* for every node, and on a graph with nodes and no edge the ids 0, 1, ... in
\* node order.
C13_UnknownMethodFallsBack ==
  ret.op = "detect_clusters" /\ ret.method \notin {"louvain", "spectral"}
      /\ DOMAIN builders[1].graph.nodes # {} =>
    LET g == builders[1].graph
    IN  /\ DOMAIN g.adj # {} => ret.value = [n \in DOMAIN g.nodes |-> 0]
        /\ DOMAIN g.adj = {} =>
             /\ DOMAIN ret.value = DOMAIN g.nodes
             /\ \A i \in DOMAIN g.order : ret.value[g.order[i]] = i - 1

\* A detect_clusters with another method on a graph with an edge.
C13_Witness ==
  /\ ret.op = "detect_clusters"
  /\ ret.method = "kmeans"
  /\ DOMAIN builders[1].graph.adj # {}
  /\ ret.value = [n \in DOMAIN builders[1].graph.nodes |-> 0]

\* C13 as stated: for a method other than "louvain" and "spectral",
\* detect_clusters on any graph with a node returns cluster 0 for every node.
C13_UnknownMethodAlwaysZero ==
  ret.op = "detect_clusters" /\ ret.method \notin {"louvain", "spectral"}
      /\ DOMAIN builders[1].graph.nodes # {} =>
    ret.value = [n \in DOMAIN builders[1].graph.nodes |-> 0]

\* C14 (SpecNormalize): get_singular of a word that get_singular returned is
\* that word.
C14_GetSingularIdempotent ==
  ret.op = "get_singular" => get_singular(processor, ret.value) = ret.value

\* C15 (Spec), as the code has it: analyze over the two groups "Group A" and
\* "Group B" with the texts
\* "cats and dogs", "dogs and birds" for the first and "birds and fish" for
\* the second, min_frequency 1 and min_score_threshold 0, returns; it has a
\* row for "dog", the unified form of "dogs", with count 2 and score 100 in
\* the first group and count 0 in the second, and a row for "bird" with a
\* count above 0 in both; it has no row for "dogs" or "birds".
C15_ScenarioOneUnified ==
  /\ ret.op = "analyze"
  /\ group_names = <<n_GroupA, n_GroupB>>
  /\ ret.args.texts_list = << <<t_cats_and_dogs, t_dogs_and_birds>>, <<t_birds_and_fish>> >>
  /\ ret.args.min_frequency = 1
  /\ ret.args.min_score_threshold = 0
  /\ ret.args.per_group_thresholds = <<>>
  => /\ ret.outcome.ok
     /\ \E r \in DOMAIN analysis_data :
          /\ analysis_data[r].word = w_dog
          /\ analysis_data[r].per[group_keys[1]].count = 2
          /\ analysis_data[r].per[group_keys[1]].normalized = Hundred
          /\ analysis_data[r].per[group_keys[2]].count = 0
     /\ \E r \in DOMAIN analysis_data :
          /\ analysis_data[r].word = w_bird
          /\ analysis_data[r].per[group_keys[1]].count > 0
          /\ analysis_data[r].per[group_keys[2]].count > 0
     /\ \A r \in DOMAIN analysis_data : analysis_data[r].word \notin {w_dogs, w_birds}

\* The analyze of scenario 1, returned.
C15_Witness ==
  /\ ret.op = "analyze"
  /\ group_names = <<n_GroupA, n_GroupB>>
  /\ ret.args.texts_list = << <<t_cats_and_dogs, t_dogs_and_birds>>, <<t_birds_and_fish>> >>
  /\ ret.args.min_frequency = 1
  /\ ret.args.min_score_threshold = 0
  /\ ret.args.per_group_thresholds = <<>>
  /\ ret.outcome.ok
  /\ Len(analysis_data) = 4

\* C15 as stated: the analyze of scenario 1 has a row for "dogs" with count 2
\* and score 100 in the first group and count 0 in the second, and a row for
\* "birds" with a count above 0 in both.
C15_ScenarioOneDogs ==
  /\ ret.op = "analyze"
  /\ group_names = <<n_GroupA, n_GroupB>>
  /\ ret.args.texts_list = << <<t_cats_and_dogs, t_dogs_and_birds>>, <<t_birds_and_fish>> >>
  /\ ret.args.min_frequency = 1
  /\ ret.args.min_score_threshold = 0
  /\ ret.args.per_group_thresholds = <<>>
  => /\ \E r \in DOMAIN analysis_data :
          /\ analysis_data[r].word = w_dogs
          /\ analysis_data[r].per[group_keys[1]].count = 2
          /\ analysis_data[r].per[group_keys[1]].normalized = Hundred
          /\ analysis_data[r].per[group_keys[2]].count = 0
     /\ \E r \in DOMAIN analysis_data :
          /\ analysis_data[r].word = w_birds
          /\ analysis_data[r].per[group_keys[1]].count > 0
          /\ analysis_data[r].per[group_keys[2]].count > 0

\* C16 (SpecNormalize): process_word looks the mapping up once, under the
\* cleaned word and before the plural unification: the word it returns is the
\* mapped (or unmapped) word or its singular.  With the mapping of "color" to
\* "colour" and plural unification, "colors" is no key of the mapping and
\* comes out as "color".
C16_MappingBeforeUnification ==
  ret.op = "process_word" /\ ret.value # None =>
    LET word   == clean_word(ret.word)
        mapped == IF word \in DOMAIN processor.word_mappings
                    THEN processor.word_mappings[word] ELSE word
    IN  /\ ret.value \in {mapped, get_singular(processor, mapped)}
        /\ ( /\ ret.word = w_colors
             /\ processor.unify_plurals
             /\ w_color \in DOMAIN processor.word_mappings
             /\ processor.word_mappings[w_color] = w_colour
             /\ w_colors \notin DOMAIN processor.word_mappings )
           => ret.value = w_color

\* "colors" processed under the mapping of "color" to "colour".
C16_Witness ==
  /\ ret.op = "process_word"
  /\ ret.word = w_colors
  /\ processor.unify_plurals
  /\ w_color \in DOMAIN processor.word_mappings
  /\ processor.word_mappings[w_color] = w_colour
  /\ ret.value = w_color

\* C17 (SpecBuilder): while the graph has a node and no edge,
\* get_network_stats reports no modularity or 0.0, whatever was built,
\* clustered or added on the builder before; and detect_clusters on such a
\* graph returns, for every method, a cluster of its own for every node.
C17_EdgelessGraphSingletonsNoModularity ==
  LET g == builders[1].graph
  IN  g.built /\ DOMAIN g.nodes # {} /\ DOMAIN g.adj = {} =>
        /\ Get(get_network_stats(builders[1]), "modularity", 0) = 0
        /\ ret.op = "detect_clusters" =>
             /\ DOMAIN ret.value = DOMAIN g.nodes
             /\ Cardinality(Range(ret.value)) = Cardinality(DOMAIN g.nodes)

\* A detect_clusters on a graph of several nodes and no edge, on a builder
\* that keeps the partition of an earlier graph with the same nodes.
C17_Witness ==
  /\ ret.op = "detect_clusters"
  /\ DOMAIN builders[1].graph.adj = {}
  /\ Cardinality(DOMAIN builders[1].graph.nodes) >= 2
  /\ builders[1].last_partition.set
  /\ DOMAIN builders[1].last_partition.val = DOMAIN builders[1].graph.nodes
  /\ Cardinality(Range(ret.value)) = Cardinality(DOMAIN builders[1].graph.nodes)

C20_ReturnedPartitionIsStored ==
  ( /\ ret.op = "detect_clusters"
    /\ GraphTruthy(builders[1].graph) )
  => /\ builders[1].last_partition.set
     /\ builders[1].last_partition.val = ret.value

\* C20 on the paths past the zero-edge test: with at least one edge the
\* returned partition is stored whatever the method and the library's outcome.
C20_StoredWhenGraphHasEdges ==
  ( /\ ret.op = "detect_clusters"
    /\ DOMAIN builders[1].graph.adj # {} )
  => /\ builders[1].last_partition.set
     /\ builders[1].last_partition.val = ret.value


--------------------------------------------------------------------------
(* Two MultiGroupAnalyzer instances in one process                         *)

\* Containers are objects: the heap maps an address to the set or dict that
\* lives there, and a processor holds addresses.  The class attribute
\* TextProcessor.DEFAULT_STOPWORDS is the object at the first address.
DEFAULT_STOPWORDS_ref == 1

\* An Optional reference: None, or the address of the caller's object.
NoRef == [some |-> FALSE, ref |-> 0]
SomeRef(a) == [some |-> TRUE, ref |-> a]

\* Python truth value of an Optional set or dict: None and empty are falsy.
TruthySetRef(h, r) == r.some /\ h[r.ref] # {}
TruthyDictRef(h, r) == r.some /\ DOMAIN h[r.ref] # {}

\* TextProcessor.__init__ on objects.  "stopwords or DEFAULT_STOPWORDS.copy()"
\* takes the caller's object when it is truthy and a new copy otherwise;
\* "delete_words or set()" and "word_mappings or {}" take the caller's object
\* when it is truthy and a new empty container otherwise.
\* "delete_words or self.DEFAULT_STOPWORDS": the class attribute itself, no copy.
delete_words_shared(h) == [heap |-> h, ref |-> DEFAULT_STOPWORDS_ref]

delete_words_default(h) == [heap |-> Append(h, {}), ref |-> Len(h) + 1]

TextProcessor_init(h, stopwords, delete_words, word_mappings, min_word_length, unify_plurals) ==
  LET s == IF TruthySetRef(h, stopwords)
             THEN [heap |-> h, ref |-> stopwords.ref]
             ELSE [heap |-> Append(h, h[DEFAULT_STOPWORDS_ref]), ref |-> Len(h) + 1]
      d == IF TruthySetRef(s.heap, delete_words)
             THEN [heap |-> s.heap, ref |-> delete_words.ref]
             ELSE delete_words_default(s.heap)
      m == IF TruthyDictRef(d.heap, word_mappings)
             THEN [heap |-> d.heap, ref |-> word_mappings.ref]
             ELSE [heap |-> Append(d.heap, EmptyDict), ref |-> Len(d.heap) + 1]
  IN  [ heap |-> m.heap,
        self |-> [ stopwords       |-> s.ref,
                   delete_words    |-> d.ref,
                   word_mappings   |-> m.ref,
                   min_word_length |-> min_word_length,
                   unify_plurals   |-> unify_plurals ] ]

\* The processor as its methods see it: the contents behind its references.
deref(h, self) ==
  [ stopwords       |-> h[self.stopwords],
    delete_words    |-> h[self.delete_words],
    word_mappings   |-> h[self.word_mappings],
    min_word_length |-> self.min_word_length,
    unify_plurals   |-> self.unify_plurals ]

\* TextProcessor.add_mappings, add_delete_words: one call per item.
RECURSIVE add_mappings(_, _)
add_mappings(p, items) ==
  IF items = <<>> THEN p
  ELSE add_mappings(add_mapping(p, items[1][1], items[1][2]), Tail(items))

RECURSIVE add_delete_words(_, _)
add_delete_words(p, words) ==
  IF words = <<>> THEN p
  ELSE add_delete_words(add_delete_word(p, words[1]), Tail(words))

\* The callers' configurations: each caller makes its own objects, or passes
\* None.
IsolationConfigs ==
  { [delete_words |-> NoSet, word_mappings |-> [some |-> FALSE, val |-> EmptyDict]],
    [delete_words |-> SomeSet({}),
     word_mappings |-> [some |-> TRUE, val |-> [w \in {w_birds} |-> w_fish]]],
    [delete_words |-> SomeSet({w_birds}),
     word_mappings |-> [some |-> TRUE, val |-> EmptyDict]] }

\* The caller's argument: its object is put on the heap and its address passed.
pass(h, opt) ==
  IF opt.some THEN [heap |-> Append(h, opt.val), ref |-> SomeRef(Len(h) + 1)]
  ELSE [heap |-> h, ref |-> NoRef]

\* MultiGroupAnalyzer(group_names, delete_words=..., word_mappings=...) by a
\* caller with configuration c, on heap h.
MultiGroupAnalyzer_init(h, names, c) ==
  LET d == pass(h, c.delete_words)
      m == pass(d.heap, c.word_mappings)
      t == TextProcessor_init(m.heap, NoRef, d.ref, m.ref, 2, TRUE)
  IN  [ heap      |-> t.heap,
        processor |-> t.self,
        ctor_args |-> [delete_words |-> d.ref, word_mappings |-> m.ref],
        builders  |-> [i \in DOMAIN names |-> NetworkBuilder] ]

\* The same construction with no other analyzer in the process.
MultiGroupAnalyzer_alone(names, c) ==
  [ processor      |-> TextProcessor(NoSet, c.delete_words.val, c.word_mappings.val, 2, TRUE),
    builders       |-> [i \in DOMAIN names |-> NetworkBuilder],
    analysis_data  |-> <<>>,
    combined_edges |-> <<>>,
    outcome        |-> Return(<<>>) ]

Instances == {1, 2}

IsolationArguments ==
  { Arguments(<<l>>, 1, 200, <<>>, "louvain", "one") :
      l \in {<<t_cats_and_dogs, t_dogs_and_birds>>, <<t_birds_and_fish>>} }

MappingChoices == { <<<<w_dogs, w_cats>>>> }

DeleteChoices == { <<w_fish, w_CatC>> }

InitIsolation ==
  \E c1 \in IsolationConfigs, c2 \in IsolationConfigs :
    \E a1 \in {MultiGroupAnalyzer_init(<<DEFAULT_STOPWORDS>>, SubSeq(AllNames, 1, 1), c1)} :
      \E a2 \in {MultiGroupAnalyzer_init(a1.heap, SubSeq(AllNames, 1, 1), c2)} :
        /\ heap = a2.heap
        /\ processor = <<a1.processor, a2.processor>>
        /\ ctor_args = <<a1.ctor_args, a2.ctor_args>>
        /\ group_names = <<SubSeq(AllNames, 1, 1), SubSeq(AllNames, 1, 1)>>
        /\ builders = <<a1.builders, a2.builders>>
        /\ analysis_data = <<<<>>, <<>>>>
        /\ combined_edges = <<<<>>, <<>>>>
        /\ ret = [op |-> "__init__", who |-> 2]
        /\ cache = <<>>
        /\ analyses_today = 0
        /\ requests = <<>>
        /\ served = 0
        /\ alone = << MultiGroupAnalyzer_alone(SubSeq(AllNames, 1, 1), c1),
                      MultiGroupAnalyzer_alone(SubSeq(AllNames, 1, 1), c2) >>

\* analyzer i: analyze(...)
AnalyzeOf(i, args) ==
  \E r \in {analyze([builders |-> builders[i], analysis_data |-> analysis_data[i],
                     combined_edges |-> combined_edges[i]],
                    deref(heap, processor[i]), group_names[i], args.texts_list,
                    args.min_frequency, args.min_score_threshold,
                    args.per_group_thresholds, args.cluster_method, args.library)} :
    \E t \in {analyze([builders |-> alone[i].builders,
                       analysis_data |-> alone[i].analysis_data,
                       combined_edges |-> alone[i].combined_edges],
                      alone[i].processor, group_names[i], args.texts_list,
                      args.min_frequency, args.min_score_threshold,
                      args.per_group_thresholds, args.cluster_method, args.library)} :
      /\ builders' = [builders EXCEPT ![i] = r.analyzer.builders]
      /\ analysis_data' = [analysis_data EXCEPT ![i] = r.analyzer.analysis_data]
      /\ combined_edges' = [combined_edges EXCEPT ![i] = r.analyzer.combined_edges]
      /\ ret' = [op |-> "analyze", who |-> i, args |-> args, outcome |-> r.outcome]
      /\ alone' = [alone EXCEPT ![i] =
                     [ processor      |-> alone[i].processor,
                       builders       |-> t.analyzer.builders,
                       analysis_data  |-> t.analyzer.analysis_data,
                       combined_edges |-> t.analyzer.combined_edges,
                       outcome        |-> t.outcome ]]
      /\ UNCHANGED <<processor, ctor_args, group_names, heap,
                   cache, analyses_today, requests, served>>

\* analyzer i: add_word_mappings(mappings); the dict object of its processor
\* is updated in place.
AddWordMappings(i, mappings) ==
  /\ Cardinality(DOMAIN heap[processor[i].word_mappings]) < MaxMappings
  /\ heap' = [heap EXCEPT ![processor[i].word_mappings] =
                add_mappings(deref(heap, processor[i]), mappings).word_mappings]
  /\ alone' = [alone EXCEPT ![i].processor = add_mappings(@, mappings)]
  /\ ret' = [op |-> "add_word_mappings", who |-> i]
  /\ UNCHANGED <<processor, ctor_args, group_names, builders, analysis_data, combined_edges,
               cache, analyses_today, requests, served>>

\* analyzer i: add_delete_words(words); the set object of its processor is
\* updated in place.
AddDeleteWords(i, words) ==
  /\ Cardinality(heap[processor[i].delete_words]) < MaxDeleted
  /\ heap' = [heap EXCEPT ![processor[i].delete_words] =
                add_delete_words(deref(heap, processor[i]), words).delete_words]
  /\ alone' = [alone EXCEPT ![i].processor = add_delete_words(@, words)]
  /\ ret' = [op |-> "add_delete_words", who |-> i]
  /\ UNCHANGED <<processor, ctor_args, group_names, builders, analysis_data, combined_edges,
               cache, analyses_today, requests, served>>

NextIsolation ==
  \/ \E i \in Instances, args \in IsolationArguments : AnalyzeOf(i, args)
  \/ \E i \in Instances, mappings \in MappingChoices : AddWordMappings(i, mappings)
  \/ \E i \in Instances, words \in DeleteChoices : AddDeleteWords(i, words)

SpecIsolation == InitIsolation /\ [][NextIsolation]_vars

\* C19 (SpecIsolation): for two analyzers constructed by callers that each
\* pass their own objects (or None), after any interleaving of analyze,
\* add_word_mappings and add_delete_words every analyzer's processor,
\* builders, analysis data, combined edges and the outcome of its last
\* analyze are those of the same calls made with no other analyzer, and the
\* class attribute DEFAULT_STOPWORDS is never modified.
C19_InstancesIsolated ==
  /\ heap[DEFAULT_STOPWORDS_ref] = DEFAULT_STOPWORDS
  /\ \A i \in Instances :
       /\ deref(heap, processor[i]) = alone[i].processor
       /\ builders[i] = alone[i].builders
       /\ analysis_data[i] = alone[i].analysis_data
       /\ combined_edges[i] = alone[i].combined_edges
       /\ (ret.op = "analyze" /\ ret.who = i) => ret.outcome = alone[i].outcome

\* Analyzer 1 returns from analyze when analyzer 2 holds data of its own
\* analyze, and the two processors have been given different words to delete
\* and different mappings.
C19_Witness ==
  /\ ret.op = "analyze"
  /\ ret.who = 1
  /\ ret.outcome.ok
  /\ analysis_data[1] # <<>>
  /\ analysis_data[2] # <<>>
  /\ analysis_data[1] # analysis_data[2]
  /\ heap[processor[1].delete_words] # heap[processor[2].delete_words]
  /\ heap[processor[2].delete_words] # {}
  /\ heap[processor[1].word_mappings] # <<>>
  /\ heap[processor[2].word_mappings] = <<>>


\* C21 (Spec): when analyze returns, no unordered pair of words occurs twice
\* in the combined edges; the weight of each is the sum over the groups of
\* the weight of that pair's edge in the group's graph; both its words have a
\* row in the analysis data; and every pair that is an edge of some group's
\* graph and has a row for both words is among the combined edges.
C21_CombinedEdgesAreFilteredSums ==
  LET valid_words == {analysis_data[k].word : k \in DOMAIN analysis_data}
      weight_in(i, e) == IF e \in DOMAIN builders[i].graph.adj
                           THEN builders[i].graph.adj[e].weight ELSE 0
      pair_of(k) == {combined_edges[k].from, combined_edges[k].to}
  IN  (ret.op = "analyze" /\ ret.outcome.ok)
      => /\ \A k, l \in DOMAIN combined_edges : pair_of(k) = pair_of(l) => k = l
         /\ \A k \in DOMAIN combined_edges :
              /\ Cardinality(pair_of(k)) = 2
              /\ combined_edges[k].weight
                   = SumOver([i \in DOMAIN builders |-> weight_in(i, pair_of(k))],
                             DOMAIN builders)
              /\ pair_of(k) \subseteq valid_words
         /\ \A i \in DOMAIN builders : \A e \in DOMAIN builders[i].graph.adj :
              e \subseteq valid_words
                => \E k \in DOMAIN combined_edges : pair_of(k) = e

\* analyze returns with a combined edge that two groups' graphs both have,
\* while an edge of some group's graph is left out for a word without a row.
C21_Witness ==
  /\ ret.op = "analyze"
  /\ ret.outcome.ok
  /\ \E k \in DOMAIN combined_edges :
       Cardinality({i \in DOMAIN builders :
                      {combined_edges[k].from, combined_edges[k].to}
                        \in DOMAIN builders[i].graph.adj}) >= 2
  /\ \E i \in DOMAIN builders : \E e \in DOMAIN builders[i].graph.adj :
       \A k \in DOMAIN combined_edges : {combined_edges[k].from, combined_edges[k].to} # e


\* C22 (SpecBuilder): get_network_stats on a built graph with no nodes
\* returns a record with num_nodes = 0, num_edges = 0 and avg_degree = 0.
C22_EmptyGraphHasZeroStats ==
  LET stats == get_network_stats(builders[1])
  IN  (builders[1].graph.built /\ DOMAIN builders[1].graph.nodes = {})
      => /\ {"num_nodes", "num_edges", "avg_degree"} \subseteq DOMAIN stats
         /\ stats.num_nodes = 0
         /\ stats.num_edges = 0
         /\ stats.avg_degree.num = 0

\* C22 for graphs with nodes: the record is there, with the counts of the
\* graph's nodes and edges.
C22_NonEmptyGraphHasStats ==
  LET stats == get_network_stats(builders[1])
  IN  (builders[1].graph.built /\ DOMAIN builders[1].graph.nodes # {})
      => /\ {"num_nodes", "num_edges", "avg_degree"} \subseteq DOMAIN stats
         /\ stats.num_nodes = Cardinality(DOMAIN builders[1].graph.nodes)
         /\ stats.num_edges = Cardinality(DOMAIN builders[1].graph.adj)


\* C23 (SpecBuilder): add_semantic_edges returns the number of edges the
\* graph gained.  A supplied pair that is an edge already keeps its one edge,
\* whose weight grows by int(similarity * multiplier) and whose similarity is
\* recorded, and is not counted; a supplied pair that is no edge yet becomes
\* one edge of that weight tagged "semantic" and is counted; the other edges
\* are untouched.  So a call whose pairs are all edges returns 0 and adds to
\* their weights.
C23_ReturnsEdgesGained ==
  [][ ret'.op = "add_semantic_edges"
        => LET g == builders[1].graph
               after == builders'[1].graph
               supplied == {{e.from, e.to} : e \in Range(ret'.semantic_edges)}
           IN  /\ ret'.value = Cardinality(DOMAIN after.adj) - Cardinality(DOMAIN g.adj)
               /\ ret'.value = Cardinality(supplied \ DOMAIN g.adj)
               /\ DOMAIN after.adj = DOMAIN g.adj \cup supplied
               /\ \A x \in DOMAIN g.adj \ supplied : after.adj[x] = g.adj[x]
               /\ \A e \in Range(ret'.semantic_edges) :
                    LET pair == {e.from, e.to}
                        weight == (e.similarity * 10) \div 10000
                    IN  IF pair \in DOMAIN g.adj
                          THEN /\ after.adj[pair].weight = g.adj[pair].weight + weight
                               /\ after.adj[pair].semantic_similarity = e.similarity
                          ELSE after.adj[pair] = [weight |-> weight,
                                                  semantic_similarity |-> e.similarity,
                                                  edge_type |-> "semantic"] ]_vars

\* A repeated call: every supplied pair is an edge that an earlier call made,
\* the call returns 0 and the edge's weight is twice int(similarity * multiplier).
C23_Witness ==
  /\ ret.op = "add_semantic_edges"
  /\ ret.semantic_edges # <<>>
  /\ ret.value = 0
  /\ \A e \in Range(ret.semantic_edges) :
       /\ "edge_type" \in DOMAIN builders[1].graph.adj[{e.from, e.to}]
       /\ builders[1].graph.adj[{e.from, e.to}].weight = 2 * ((e.similarity * 10) \div 10000)


\* C24 (Spec): the rows analyze returns are in non-increasing order of
\* avg_normalized, and the avg_normalized of a row is the mean, rounded to two
\* decimals, over all the groups of the word's normalized score in the group,
\* a group without the word counting 0.
C24_RowsSortedByAverage ==
  LET n == num_groups
      score(i, word) ==
        IF word \in DOMAIN builders[i].word_counts
          THEN RoundDiv(builders[i].word_counts[word] * 10000,
                        CHOOSE m \in Range(builders[i].word_counts) :
                          \A c \in Range(builders[i].word_counts) : m >= c)
          ELSE 0
  IN  (ret.op = "analyze" /\ ret.outcome.ok)
      => /\ \A k \in 1..(Len(analysis_data) - 1) :
              analysis_data[k].avg_normalized >= analysis_data[k + 1].avg_normalized
         /\ \A k \in DOMAIN analysis_data :
              analysis_data[k].avg_normalized
                = RoundDiv(SumOver([i \in 1..n |-> score(i, analysis_data[k].word)], 1..n), n)

\* Rows of two groups or more with different averages, the first row's word
\* coming before no other word in word order and one row being of a word that
\* a group does not have.
C24_Witness ==
  /\ ret.op = "analyze"
  /\ ret.outcome.ok
  /\ num_groups >= 2
  /\ Len(analysis_data) >= 3
  /\ analysis_data[1].avg_normalized > analysis_data[Len(analysis_data)].avg_normalized
  /\ \E k \in 2..Len(analysis_data) : StrLess(analysis_data[k].word, analysis_data[1].word)
  /\ \E k \in DOMAIN analysis_data : ~analysis_data[k].in_all


\* C25 (Spec): a row of analyze has a difference field exactly when the
\* analyzer has two groups, and the field is then the word's normalized score
\* in the first group minus its normalized score in the second.
C25_DifferenceOnlyForTwoGroups ==
  LET score(i, word) ==
        IF word \in DOMAIN builders[i].word_counts
          THEN RoundDiv(builders[i].word_counts[word] * 10000,
                        CHOOSE m \in Range(builders[i].word_counts) :
                          \A c \in Range(builders[i].word_counts) : m >= c)
          ELSE 0
  IN  (ret.op = "analyze" /\ ret.outcome.ok)
      => \A k \in DOMAIN analysis_data :
           /\ "difference" \in DOMAIN analysis_data[k] <=> num_groups = 2
           /\ num_groups = 2
                => analysis_data[k].difference
                     = score(1, analysis_data[k].word) - score(2, analysis_data[k].word)

\* Two groups, with a row of positive and a row of negative difference.
C25_Witness ==
  /\ ret.op = "analyze"
  /\ ret.outcome.ok
  /\ num_groups = 2
  /\ \E k \in DOMAIN analysis_data : analysis_data[k].difference > 0
  /\ \E k \in DOMAIN analysis_data : analysis_data[k].difference < 0


\* C26 (SpecBuilder): after any sequence of build_network and
\* add_semantic_edges calls the builder's edge table agrees with its graph:
\* the pairs of the table are the edges of the graph, and the weight the
\* table gives for a pair is the weight of that edge in the graph.
C26_EdgeTableAgreesWithGraph ==
  /\ {{pr[1], pr[2]} : pr \in DOMAIN builders[1].edges} = DOMAIN builders[1].graph.adj
  /\ \A pr \in DOMAIN builders[1].edges :
       builders[1].edges[pr] = builders[1].graph.adj[{pr[1], pr[2]}].weight

\* C26 as far as it holds: the pairs of the table are the edges of the
\* graph, and get_edges_list reports one record per edge; the weights agree
\* for every edge that no add_semantic_edges call has merged into.
C26_EdgeTableHasGraphPairs ==
  /\ {{pr[1], pr[2]} : pr \in DOMAIN builders[1].edges} = DOMAIN builders[1].graph.adj
  /\ Cardinality(get_edges_list(builders[1])) = Cardinality(DOMAIN builders[1].graph.adj)
  /\ \A pr \in DOMAIN builders[1].edges :
       \/ builders[1].edges[pr] = builders[1].graph.adj[{pr[1], pr[2]}].weight
       \/ /\ "semantic_similarity" \in DOMAIN builders[1].graph.adj[{pr[1], pr[2]}]
          /\ builders[1].edges[pr] < builders[1].graph.adj[{pr[1], pr[2]}].weight


\* C27 (Spec): the normalized keys of the groups of an analyzer are distinct,
\* and every row and the stats of analyze have one set of per-group fields
\* for each of the groups, holding that group's count and normalized score.
C27_PerGroupFieldsForEveryGroup ==
  LET n == num_groups
      score(i, word) ==
        IF word \in DOMAIN builders[i].word_counts
          THEN RoundDiv(builders[i].word_counts[word] * 10000,
                        CHOOSE m \in Range(builders[i].word_counts) :
                          \A c \in Range(builders[i].word_counts) : m >= c)
          ELSE 0
  IN  /\ \A i, j \in 1..n : group_keys[i] = group_keys[j] => i = j
      /\ (ret.op = "analyze" /\ ret.outcome.ok)
         => /\ Cardinality(DOMAIN ret.outcome.value.per) = n
            /\ \A k \in DOMAIN analysis_data :
                 /\ Cardinality(DOMAIN analysis_data[k].per) = n
                 /\ \A i \in 1..n :
                      /\ analysis_data[k].per[group_keys[i]].count
                           = Get(builders[i].word_counts, analysis_data[k].word, 0)
                      /\ analysis_data[k].per[group_keys[i]].normalized
                           = score(i, analysis_data[k].word)

\* C27 for analyzers whose group names have distinct normalized keys: the
\* rows and the stats have the per-group fields of each group.
C27_DistinctKeysKeepGroupsApart ==
  LET n == num_groups
  IN  ( /\ \A i, j \in 1..n : group_keys[i] = group_keys[j] => i = j
        /\ ret.op = "analyze" /\ ret.outcome.ok )
      => /\ Cardinality(DOMAIN ret.outcome.value.per) = n
         /\ \A k \in DOMAIN analysis_data :
              /\ Cardinality(DOMAIN analysis_data[k].per) = n
              /\ \A i \in 1..n :
                   analysis_data[k].per[group_keys[i]].count
                     = Get(builders[i].word_counts, analysis_data[k].word, 0)


\* C28 (SpecNormalize): a TextProcessor constructed with a stopword set, the
\* empty set included, drops as stopwords the words of that set and no
\* others: with nothing to delete, process_text keeps every token that is
\* long enough and is not in the supplied set.
C28_SuppliedStopwordsInForce ==
  ( /\ ctor_args.some
    /\ ret.op = "process_text"
    /\ ret.text # NotAString
    /\ processor.delete_words = {} )
  => LET tokens == Split(ret.text)
     IN  Len(ret.value)
           = Cardinality({i \in DOMAIN tokens :
                            /\ Len(clean_word(tokens[i])) >= processor.min_word_length
                            /\ clean_word(tokens[i]) \notin ctor_args.val})

\* C28 for a supplied set that is not empty: it is the set in force.
C28_NonEmptyStopwordsInForce ==
  ( /\ ctor_args.some
    /\ ctor_args.val # {}
    /\ ret.op = "process_text"
    /\ ret.text # NotAString
    /\ processor.delete_words = {} )
  => LET tokens == Split(ret.text)
     IN  /\ processor.stopwords = ctor_args.val
         /\ Len(ret.value)
              = Cardinality({i \in DOMAIN tokens :
                               /\ Len(clean_word(tokens[i])) >= processor.min_word_length
                               /\ clean_word(tokens[i]) \notin ctor_args.val})


--------------------------------------------------------------------------
(* The endpoint /analyze/multi: usage limit and result cache               *)

\* tier_limits.TIER_LIMITS: max_groups and max_analyses_per_day (None: no limit).
max_groups(tier) ==
  IF tier = "free" THEN 1 ELSE IF tier = "pro" THEN 2 ELSE 5

max_analyses_per_day(tier) ==
  IF tier = "free" THEN [some |-> TRUE, val |-> 3] ELSE [some |-> FALSE, val |-> 0]

\* cache_service.hash_content: sha256 of the content, taken to be injective.
hash_content(content) == <<"sha256", content>>

\* cache_service._make_key: the hashes sorted, with the config.  The sorted
\* list of the hashes is given by how often each hash occurs.
make_key(file_hashes, config) ==
  [ files  |-> [h \in Range(file_hashes) |->
                  Cardinality({i \in DOMAIN file_hashes : file_hashes[i] = h})],
    config |-> config ]

\* The response the endpoint builds from what analyze gave.
response_data(r, config) ==
  [ success       |-> r.outcome.ok,
    analysis_data |-> r.analyzer.analysis_data,
    edges         |-> r.analyzer.combined_edges,
    group_names   |-> config.group_configs ]

\* A MultiGroupAnalyzer over n groups as the endpoint constructs it.
new_analyzer(n) ==
  [builders |-> [i \in 1..n |-> NetworkBuilder], analysis_data |-> <<>>, combined_edges |-> <<>>]

\* The response of a request that is not answered from the cache: a
\* MultiGroupAnalyzer over the names of the configs analyzes the texts of the
\* files, each file being the texts of the group at its position.
fresh_response(files, config) ==
  response_data(analyze(new_analyzer(Len(config.group_configs)),
                        TextProcessor(NoSet, {}, EmptyDict, 2, TRUE),
                        config.group_configs, files, config.min_frequency,
                        config.min_score_threshold,
                        [i \in DOMAIN config.group_configs |-> config.min_score_threshold],
                        config.cluster_method, "one"),
                config)

\* The requests one user has in flight at a time.
MaxRequests == 2

\* Uploaded files, each the list of the texts of its text column.
UploadedFiles == { <<t_cats_and_dogs, t_dogs_and_birds>>, <<t_birds_and_fish>> }

\* The requests of a user of the given tier: as many groups as the tier
\* allows, and one request with a group more.
RequestsOf(tier) ==
  { [ pc     |-> "received",
      tier   |-> tier,
      files  |-> files,
      config |-> [ group_configs       |-> SubSeq(AllNames, 1, Len(files)),
                   min_frequency       |-> f,
                   min_score_threshold |-> 200,
                   cluster_method      |-> "louvain" ] ] :
      files \in [1..max_groups(tier) -> UploadedFiles]
                 \cup {[n \in 1..(max_groups(tier) + 1) |-> <<t_birds_and_fish>>]},
      f \in 1..MaxFreq }

InitEndpoint ==
  /\ processor = TextProcessor(NoSet, {}, EmptyDict, 2, TRUE)
  /\ ctor_args = NoSet
  /\ group_names = <<>>
  /\ builders = <<>>
  /\ analysis_data = <<>>
  /\ combined_edges = <<>>
  /\ heap = <<>>
  /\ alone = <<>>
  /\ ret = [op |-> "__init__"]
  /\ cache = <<>>
  /\ \E tier \in {"free", "pro"} :
       /\ requests \in [1..MaxRequests -> RequestsOf(tier)]
       /\ analyses_today \in 0..(IF tier = "free" THEN max_analyses_per_day(tier).val ELSE 0)
  /\ served = analyses_today

\* analyze_multi_group up to the reading of the files: check_analysis_limit
\* and check_groups_limit against the profile as it is now.
CheckLimits(i) ==
  /\ requests[i].pc = "received"
  /\ LET limit == max_analyses_per_day(requests[i].tier)
         allowed == /\ ~(limit.some /\ analyses_today >= limit.val)
                    /\ Len(requests[i].config.group_configs) <= max_groups(requests[i].tier)
     IN  requests' = [requests EXCEPT ![i].pc = IF allowed THEN "checked" ELSE "rejected"]
  /\ ret' = [op |-> "check_limits", who |-> i]
  /\ UNCHANGED <<processor, ctor_args, group_names, builders, analysis_data, combined_edges,
                 heap, alone, cache, analyses_today, served>>

\* analyze_multi_group from the cache lookup on, when the key is in the
\* cache: the count is incremented and the stored response returned.
ReturnCached(i) ==
  \E key \in {make_key([k \in DOMAIN requests[i].files |-> hash_content(requests[i].files[k])],
                       requests[i].config)} :
    /\ requests[i].pc = "checked"
    /\ key \in DOMAIN cache
    /\ analyses_today' = analyses_today + 1
    /\ served' = served + 1
    /\ requests' = [requests EXCEPT ![i].pc = "returned"]
    /\ ret' = [op |-> "analyze_multi_group", who |-> i, hit |-> TRUE,
               files |-> requests[i].files, config |-> requests[i].config,
               response |-> cache[key]]
    /\ UNCHANGED <<processor, ctor_args, group_names, builders, analysis_data, combined_edges,
                   heap, alone, cache>>

\* analyze_multi_group from the cache lookup on, when the key is not in the
\* cache: the analysis is made; if it raises the request fails with status
\* 500; otherwise the count is incremented, the response stored and returned.
AnalyzeAndStore(i) ==
  \E key \in {make_key([k \in DOMAIN requests[i].files |-> hash_content(requests[i].files[k])],
                       requests[i].config)} :
    \E response \in {fresh_response(requests[i].files, requests[i].config)} :
      /\ requests[i].pc = "checked"
      /\ key \notin DOMAIN cache
      /\ IF response.success
           THEN /\ analyses_today' = analyses_today + 1
                /\ served' = served + 1
                /\ cache' = [k \in DOMAIN cache \cup {key} |->
                               IF k = key THEN response ELSE cache[k]]
                /\ requests' = [requests EXCEPT ![i].pc = "returned"]
           ELSE /\ requests' = [requests EXCEPT ![i].pc = "failed"]
                /\ UNCHANGED <<analyses_today, served, cache>>
      /\ ret' = [op |-> "analyze_multi_group", who |-> i, hit |-> FALSE,
                 files |-> requests[i].files, config |-> requests[i].config,
                 response |-> response]
      /\ UNCHANGED <<processor, ctor_args, group_names, builders, analysis_data,
                     combined_edges, heap, alone>>

\* TTLCache: an entry is dropped when its hour is over.
Expire(key) ==
  /\ key \in DOMAIN cache
  /\ cache' = [k \in DOMAIN cache \ {key} |-> cache[k]]
  /\ ret' = [op |-> "expire"]
  /\ UNCHANGED <<processor, ctor_args, group_names, builders, analysis_data, combined_edges,
                 heap, alone, analyses_today, requests, served>>

NextEndpoint ==
  \/ \E i \in 1..MaxRequests : CheckLimits(i)
  \/ \E i \in 1..MaxRequests : ReturnCached(i)
  \/ \E i \in 1..MaxRequests : AnalyzeAndStore(i)
  \/ \E key \in DOMAIN cache : Expire(key)

SpecEndpoint == InitEndpoint /\ [][NextEndpoint]_vars

\* C29 (SpecEndpoint): a response that comes from the cache is the response
\* to the request's own files: the analysis of its files, each in its own
\* group position, under its configuration.
C29_CachedResponseIsOfSameOrder ==
  (ret.op = "analyze_multi_group" /\ ret.hit)
  => ret.response = fresh_response(ret.files, ret.config)

\* C29 as far as it holds: a response that comes from the cache is the
\* analysis, under the request's configuration, of the request's files in
\* some order.
C29_CachedResponseIsOfSameFiles ==
  (ret.op = "analyze_multi_group" /\ ret.hit)
  => \E files \in [DOMAIN ret.files -> Range(ret.files)] :
       /\ \A f \in Range(ret.files) :
            Cardinality({k \in DOMAIN files : files[k] = f})
              = Cardinality({k \in DOMAIN ret.files : ret.files[k] = f})
       /\ ret.response = fresh_response(files, ret.config)

\* C30 (SpecEndpoint): a user of a tier with a daily limit is returned no
\* more analysis results in a day than the limit.
C30_NoMoreResultsThanLimit ==
  \A i \in DOMAIN requests :
    max_analyses_per_day(requests[i].tier).some
      => served <= max_analyses_per_day(requests[i].tier).val

\* C30 as far as it holds: the results of a day exceed the limit by less
\* than the number of requests in flight at a time.
C30_OvershootBelowRequestsInFlight ==
  \A i \in DOMAIN requests :
    max_analyses_per_day(requests[i].tier).some
      => served <= max_analyses_per_day(requests[i].tier).val + MaxRequests - 1
====
